---------------------------- MODULE Spec2Model ----------------------------
(***************************************************************************)
(* Verification model of the judgment tool (src/unnamed/part_000, the      *)
(* short+mid version of app.js, and src/app.js, the short-only version).   *)
(*                                                                         *)
(* Two parts:                                                              *)
(*   - the decision engine (analyzeEntry / analyzeEntryMid and the pure    *)
(*     functions they call), checked under SpecEngine;                     *)
(*   - the data-acquisition orchestrator (fetchStockData and the attempts  *)
(*     it races), checked under SpecFetch and SpecFetchFair.               *)
(*                                                                         *)
(* Numbers.  Prices are integers in the market's price unit: whole yen for *)
(* market "jp", whole cents for market "us" (the form's input step is 1    *)
(* and 0.01, part_000:882).  The JavaScript arithmetic on them is modelled *)
(* exactly with integer arithmetic (cross-multiplied comparisons).         *)
(* An absent value (JavaScript null) is the empty sequence <<>>; a present *)
(* number v is <<v>>; a ratio n/d is <<n, d>>.                             *)
(* Text.  Messages are sequences of ASCII tokens standing for the source's *)
(* Japanese texts; the tokens the code tests for ("[AV]", "[TD]",          *)
(* "manual" for the substring the isGeneric test looks for) are kept as    *)
(* separate tokens so that startsWith / includes are computed.            *)
(***************************************************************************)
EXTENDS Integers, Sequences, FiniteSets, TLC

VARIABLES
    form,        \* the inputs handed to analyzeEntry / analyzeEntryMid
    analysis,    \* the AnalysisResult of the last submission, or NoResult
    cfg,         \* fetch: market, stored API keys (localStorage)
    call,        \* fetch: position of the fetchStockData call
    inflight,    \* fetch: attempts whose request is in flight (timer armed)
    errs,        \* fetch: rejection message recorded for an attempt
    avSymbol,    \* fetch: localStorage av_sym_<code> (<<>> when absent)
    stockData,   \* fetch: the snapshot phase 1 resolved with (<<>> before)
    trendState,  \* fetch: settlement of the trend-history branch of phase 2
    indexState,  \* fetch: settlement of the index-history branch of phase 2
    outcome,     \* fetch: what the call resolved with / threw
    pure,        \* a call of one pure function: its name, argument, result
    resolver,    \* the calls of resolveAVSymbol and the requests they issued
    ui           \* the page: selected market, fetch button, fields, fetches

engineVars == <<form, analysis>>
fetchVars  == <<cfg, call, inflight, errs, avSymbol, stockData, trendState,
                indexState, outcome>>
otherVars  == <<pure, resolver, ui>>
vars == <<form, analysis, cfg, call, inflight, errs, avSymbol, stockData,
          trendState, indexState, outcome, pure, resolver, ui>>

Null == <<>>

\* the element of a singleton: Only({e(x) : x \in {v}}) is e(v), with v
\* evaluated once
Only(S) == CHOOSE x \in S : TRUE

-----------------------------------------------------------------------------
(***************************************************************************)
(* LAYER 1: pure functions of the short horizon                            *)
(***************************************************************************)

\* The sub-scores are looked up in an object literal, { ... }[key] ?? 0.
\* What the lookup yields is a number, or a member that every object literal
\* inherits from Object.prototype (a function, or the prototype itself),
\* which is not nullish and so is returned as it is.
jsNumber(n)  == [type |-> "number", value |-> n]
jsInherited  == [type |-> "object", value |-> 0]

\* some of the names inherited from Object.prototype
ObjectPrototype ==
    {"constructor", "toString", "valueOf", "hasOwnProperty", "__proto__"}

\* table[key] ?? 0 for a table with string keys
lookupOr0(table, key) ==
    IF key \in DOMAIN table THEN jsNumber(table[key])
    ELSE IF key \in ObjectPrototype THEN jsInherited
    ELSE jsNumber(0)

\* the number a sub-score is when its input is one of the form's values
numberOf(v) == v.value

calcMarketScore_bad0(sentiment) ==
    lookupOr0([good |-> 2, normal |-> 0, bad |-> 0], sentiment)

calcMarketScore(sentiment) ==
    lookupOr0([good |-> 2, normal |-> 0, bad |-> -2], sentiment)

\* focus is a number in the model; a numeric key names no inherited member
calcFocusScore(focus) ==
    IF focus \in 1..5
    THEN jsNumber((1 :> -2 @@ 2 :> -1 @@ 3 :> 0 @@ 4 :> 1 @@ 5 :> 2)[focus])
    ELSE jsNumber(0)

\* currentPrice <= prevLow * 1.01 is 100*currentPrice <= 101*prevLow;
\* currentPrice >= prevHigh * 0.99 is 100*currentPrice >= 99*prevHigh (the
\* doubles prevLow * 1.01 and prevHigh * 0.99 order against currentPrice as
\* the exact products do, for yen and for dollar prices of the forms).
\* mutation of calcPricePositionScore: the resistance band is tested first
calcPricePositionScore_resistFirst(currentPrice, prevHigh, prevLow) ==
    IF currentPrice > prevHigh THEN [score |-> -2, position |-> "above_high"]
    ELSE IF currentPrice < prevLow THEN [score |-> -3, position |-> "below_low"]
    ELSE IF 100 * currentPrice >= 99 * prevHigh
         THEN [score |-> -1, position |-> "near_resistance"]
    ELSE IF 100 * currentPrice <= 101 * prevLow
         THEN [score |-> 1, position |-> "near_support"]
    ELSE [score |-> 0, position |-> "range"]

calcPricePositionScore(currentPrice, prevHigh, prevLow) ==
    IF currentPrice > prevHigh THEN [score |-> -2, position |-> "above_high"]
    ELSE IF currentPrice < prevLow THEN [score |-> -3, position |-> "below_low"]
    ELSE IF 100 * currentPrice <= 101 * prevLow
         THEN [score |-> 1, position |-> "near_support"]
    ELSE IF 100 * currentPrice >= 99 * prevHigh
         THEN [score |-> -1, position |-> "near_resistance"]
    ELSE [score |-> 0, position |-> "range"]

\* calcPricePositionScore of the short-only version (src/app.js:60-84)
app_calcPricePositionScore(currentPrice, prevHigh, prevLow) ==
    IF currentPrice > prevHigh THEN [score |-> -2, position |-> "above_high"]
    ELSE IF currentPrice < prevLow THEN [score |-> -3, position |-> "below_low"]
    ELSE LET nearSupport100 == prevLow * 101
             nearResist100  == prevHigh * 99
         IN  IF 100 * currentPrice <= nearSupport100
             THEN [score |-> 1, position |-> "near_support"]
             ELSE IF 100 * currentPrice >= nearResist100
                  THEN [score |-> -1, position |-> "near_resistance"]
                  ELSE [score |-> 0, position |-> "range"]

\* Math.floor(v) and Math.round(v * 100) / 100 of v = n / d, in price units:
\* for market "us" the unit is the cent, so rounding to two decimals of a
\* dollar amount is rounding (half up) to a whole number of units.
roundMarket(market, n, d) ==
    IF market = "us" THEN (2 * n + d) \div (2 * d) ELSE n \div d

\* mutation of calcStopLoss: the stop is put 0.5% above the previous low
calcStopLoss_above(currentPrice, prevLow, market) ==
    IF currentPrice > prevLow
    THEN roundMarket(market, prevLow * 1005, 1000)
    ELSE roundMarket(market, currentPrice * 98, 100)

\* mutation of calcStopLoss: a price equal to the previous low takes the
\* first branch
calcStopLoss_geq(currentPrice, prevLow, market) ==
    IF currentPrice >= prevLow
    THEN roundMarket(market, prevLow * 995, 1000)
    ELSE roundMarket(market, currentPrice * 98, 100)

calcStopLoss(currentPrice, prevLow, market) ==
    IF currentPrice > prevLow
    THEN roundMarket(market, prevLow * 995, 1000)
    ELSE roundMarket(market, currentPrice * 98, 100)

\* mutation of calcEntrySignal: the focus hard rule is tested after the scores
calcEntrySignal_scoreFirst(totalScore, focus, sentiment) ==
    IF totalScore >= 3 THEN [signal |-> "ok", rule |-> "score_ok"]
    ELSE IF focus <= 2 THEN [signal |-> "ng", rule |-> "hard_focus"]
    ELSE IF sentiment = "bad" /\ focus < 4
         THEN [signal |-> "ng", rule |-> "hard_sentiment_focus"]
    ELSE IF totalScore >= 0 THEN [signal |-> "watch", rule |-> "score_watch"]
    ELSE [signal |-> "ng", rule |-> "score_ng"]

\* mutation of calcEntrySignal: the sentiment hard rule requires focus < 3
calcEntrySignal_focus3(totalScore, focus, sentiment) ==
    IF focus <= 2 THEN [signal |-> "ng", rule |-> "hard_focus"]
    ELSE IF sentiment = "bad" /\ focus < 3
         THEN [signal |-> "ng", rule |-> "hard_sentiment_focus"]
    ELSE IF totalScore >= 3 THEN [signal |-> "ok", rule |-> "score_ok"]
    ELSE IF totalScore >= 0 THEN [signal |-> "watch", rule |-> "score_watch"]
    ELSE [signal |-> "ng", rule |-> "score_ng"]

\* rule stands for the reason text (which rule fired)
calcEntrySignal(totalScore, focus, sentiment) ==
    IF focus <= 2 THEN [signal |-> "ng", rule |-> "hard_focus"]
    ELSE IF sentiment = "bad" /\ focus < 4
         THEN [signal |-> "ng", rule |-> "hard_sentiment_focus"]
    ELSE IF totalScore >= 3 THEN [signal |-> "ok", rule |-> "score_ok"]
    ELSE IF totalScore >= 0 THEN [signal |-> "watch", rule |-> "score_watch"]
    ELSE [signal |-> "ng", rule |-> "score_ng"]

\* calcEntrySignal of the short-only version (src/app.js:177-194)
app_calcEntrySignal(totalScore, focus, sentiment) ==
    IF focus <= 2 THEN [signal |-> "ng", rule |-> "hard_focus"]
    ELSE IF sentiment = "bad" /\ focus < 4
         THEN [signal |-> "ng", rule |-> "hard_sentiment_focus"]
    ELSE IF totalScore >= 3 THEN [signal |-> "ok", rule |-> "score_ok"]
    ELSE IF totalScore >= 0 THEN [signal |-> "watch", rule |-> "score_watch"]
    ELSE [signal |-> "ng", rule |-> "score_ng"]

\* riskPercent = (currentPrice - stopLoss) / currentPrice * 100 is computed in
\* binary floating point.  Yen prices are whole numbers and the double is
\* exact wherever the quotient meets a threshold, so riskPercent <= k is
\* 100 * (currentPrice - stopLoss) <= k * currentPrice.  Dollar prices are
\* decimal fractions (1.00, 0.98): for every price up to 1.20 dollars whose
\* exact quotient equals a threshold k in {2, 3, 5} the double is above k
\* ((1.00 - 0.98) / 1.00 * 100 is 2.0000000000000018), so for market "us"
\* the comparison is strict in the exact quotient.  riskAbove says whether
\* the double lies above the exact quotient where that matters.
riskAbove(market) == market = "us"

riskAtMost(market, currentPrice, stopLoss, k) ==
    IF riskAbove(market)
    THEN 100 * (currentPrice - stopLoss) < k * currentPrice
    ELSE 100 * (currentPrice - stopLoss) <= k * currentPrice

\* mutation of calcPositionSize: the large tier requires a risk above 2%
calcPositionSize_riskAbove2(score, currentPrice, stopLoss, focus, sentiment, market) ==
    IF score >= 4 /\ ~riskAtMost(market, currentPrice, stopLoss, 2) /\ focus >= 4
       /\ sentiment = "good" THEN "large"
    ELSE IF score >= 2 /\ riskAtMost(market, currentPrice, stopLoss, 3)
            /\ focus >= 3 THEN "medium"
    ELSE IF score >= 0 /\ riskAtMost(market, currentPrice, stopLoss, 5)
         THEN "small"
    ELSE "pass"

\* market is not a parameter of the function: it tells the unit of the two
\* prices (yen or cents), which decides the double riskPercent
calcPositionSize(score, currentPrice, stopLoss, focus, sentiment, market) ==
    IF score >= 4 /\ riskAtMost(market, currentPrice, stopLoss, 2) /\ focus >= 4
       /\ sentiment = "good" THEN "large"
    ELSE IF score >= 2 /\ riskAtMost(market, currentPrice, stopLoss, 3)
            /\ focus >= 3 THEN "medium"
    ELSE IF score >= 0 /\ riskAtMost(market, currentPrice, stopLoss, 5)
         THEN "small"
    ELSE "pass"

\* calcPositionSize of the short-only version (src/app.js:212-241)
app_calcPositionSize(score, currentPrice, stopLoss, focus, sentiment, market) ==
    IF score >= 4 /\ riskAtMost(market, currentPrice, stopLoss, 2) /\ focus >= 4
       /\ sentiment = "good" THEN "large"
    ELSE IF score >= 2 /\ riskAtMost(market, currentPrice, stopLoss, 3)
            /\ focus >= 3 THEN "medium"
    ELSE IF score >= 0 /\ riskAtMost(market, currentPrice, stopLoss, 5)
         THEN "small"
    ELSE "pass"

\* w.push(x) when the condition holds
pushIf(cond, level, kind) ==
    IF cond THEN <<[level |-> level, kind |-> kind]>> ELSE <<>>

\* vol = (prevHigh - prevLow) / prevLow * 100 > 5
highVolatility(prevHigh, prevLow) == 100 * (prevHigh - prevLow) > 5 * prevLow

calcRiskWarningsShort(focus, sentiment, currentPrice, prevHigh, prevLow, volume) ==
       (IF focus <= 2 THEN pushIf(TRUE, "critical", "focus_low")
        ELSE pushIf(focus = 3, "warning", "focus_mid"))
    \o pushIf(sentiment = "bad", "critical", "sentiment_bad")
    \o pushIf(currentPrice > prevHigh, "warning", "above_high")
    \o pushIf(currentPrice < prevLow, "warning", "below_low")
    \o pushIf(highVolatility(prevHigh, prevLow), "warning", "volatility")
    \o pushIf(volume # Null /\ volume[1] > 0, "warning", "volume")

(***************************************************************************)
(* LAYER 1b: pure functions of the mid horizon                             *)
(***************************************************************************)

calcTrendScore(trend) ==
    lookupOr0([up |-> 3, side |-> 0, down |-> -3], trend)

calcEarningsScore(earningsProx) ==
    lookupOr0([far |-> 1, month |-> 0, twoweeks |-> -1, week |-> -3,
               unknown |-> 0], earningsProx)

calcSectorMomentumScore(sectorMom) ==
    lookupOr0([strong |-> 2, neutral |-> 0, weak |-> -2], sectorMom)

\* reward / risk is a quotient of two double differences.  Among the dollar
\* prices of the forms below, the quotient meets a threshold of the callers
\* (1.5, 2.0, 2.5) exactly at these two inputs <<currentPrice, stopLoss,
\* targetPrice>> (in cents), and there the double lies below the exact ratio:
\* (1.15 - 1.05) / (1.05 - 1.00) is 1.9999999999999956.  Everywhere else in
\* the forms, and for every yen price, the double compares as the exact ratio.
rrBelow(market, currentPrice, stopLoss, targetPrice) ==
    /\ market = "us"
    /\ <<currentPrice, stopLoss, targetPrice>> \in {<<105, 100, 115>>,
                                                    <<106, 100, 115>>}

\* mutation of calcRR: the risk is not tested
calcRR_noRisk(currentPrice, stopLoss, targetPrice, market) ==
    IF targetPrice = Null \/ targetPrice[1] = 0 \/ targetPrice[1] <= currentPrice
    THEN Null
    ELSE <<targetPrice[1] - currentPrice, currentPrice - stopLoss,
           rrBelow(market, currentPrice, stopLoss, targetPrice[1])>>

\* the ratio reward / risk is <<reward, risk, below>>, below telling whether
\* the double lies below the exact ratio; !targetPrice is true of null and
\* of 0.  market is not a parameter of the function: it tells the unit of
\* the prices.
calcRR(currentPrice, stopLoss, targetPrice, market) ==
    IF targetPrice = Null \/ targetPrice[1] = 0 \/ targetPrice[1] <= currentPrice
    THEN Null
    ELSE IF currentPrice - stopLoss <= 0 THEN Null
    ELSE <<targetPrice[1] - currentPrice, currentPrice - stopLoss,
           rrBelow(market, currentPrice, stopLoss, targetPrice[1])>>

\* mutation of calcEntrySignalMid: the earnings rule is left out
calcEntrySignalMid_noWeek(totalScore, focus, earningsProx) ==
    IF focus <= 2 THEN [signal |-> "ng", rule |-> "hard_focus"]
    ELSE IF totalScore >= 5 THEN [signal |-> "ok", rule |-> "score_ok"]
    ELSE IF totalScore >= 1 THEN [signal |-> "watch", rule |-> "score_watch"]
    ELSE [signal |-> "ng", rule |-> "score_ng"]

\* mutation of calcEntrySignalMid: the watch threshold is 0
calcEntrySignalMid_watch0(totalScore, focus, earningsProx) ==
    IF focus <= 2 THEN [signal |-> "ng", rule |-> "hard_focus"]
    ELSE IF earningsProx = "week" /\ totalScore < 5
         THEN [signal |-> "watch", rule |-> "earnings_week"]
    ELSE IF totalScore >= 5 THEN [signal |-> "ok", rule |-> "score_ok"]
    ELSE IF totalScore >= 0 THEN [signal |-> "watch", rule |-> "score_watch"]
    ELSE [signal |-> "ng", rule |-> "score_ng"]

calcEntrySignalMid(totalScore, focus, earningsProx) ==
    IF focus <= 2 THEN [signal |-> "ng", rule |-> "hard_focus"]
    ELSE IF earningsProx = "week" /\ totalScore < 5
         THEN [signal |-> "watch", rule |-> "earnings_week"]
    ELSE IF totalScore >= 5 THEN [signal |-> "ok", rule |-> "score_ok"]
    ELSE IF totalScore >= 1 THEN [signal |-> "watch", rule |-> "score_watch"]
    ELSE [signal |-> "ng", rule |-> "score_ng"]

\* mutation of rrAtLeast: a null rr is compared as 2
rrAtLeast_null2(rr, n, d) ==
    IF rr = Null THEN 2 * d >= n
    ELSE IF rr[3] THEN d * rr[1] > n * rr[2]
    ELSE d * rr[1] >= n * rr[2]

\* rrVal >= n / d with rrVal = rr ?? 0
rrAtLeast(rr, n, d) ==
    IF rr = Null THEN 0 >= n
    ELSE IF rr[3] THEN d * rr[1] > n * rr[2]
    ELSE d * rr[1] >= n * rr[2]

\* rr < n / d for a ratio rr
rrLess(rr, n, d) ==
    IF rr[3] THEN d * rr[1] <= n * rr[2] ELSE d * rr[1] < n * rr[2]

calcPositionSizeMid(score, currentPrice, stopLoss, focus, trend, rr) ==
    IF score >= 7 /\ rrAtLeast(rr, 5, 2) /\ focus >= 4 /\ trend = "up"
    THEN "large"
    ELSE IF score >= 5 /\ rrAtLeast(rr, 2, 1) /\ focus >= 3 THEN "medium"
    ELSE IF score >= 2 /\ rrAtLeast(rr, 3, 2) THEN "small"
    ELSE "pass"

\* mutation of calcRiskWarningsMid: the focus = 3 check is an independent
\* check for focus <= 3
calcRiskWarningsMid_focusBoth(focus, trend, earningsProx, sectorMom, sentiment, rr) ==
       pushIf(focus <= 2, "critical", "focus_low")
    \o pushIf(focus <= 3, "warning", "focus_mid")
    \o pushIf(trend = "down", "warning", "trend_down")
    \o pushIf(sentiment = "bad", "critical", "sentiment_bad")
    \o (IF earningsProx = "week" THEN pushIf(TRUE, "critical", "earnings_week")
        ELSE pushIf(earningsProx = "twoweeks", "warning", "earnings_twoweeks"))
    \o pushIf(sectorMom = "weak", "warning", "sector_weak")
    \o pushIf(rr # Null /\ rrLess(rr, 3, 2), "warning", "rr_low")

calcRiskWarningsMid(focus, trend, earningsProx, sectorMom, sentiment, rr) ==
       (IF focus <= 2 THEN pushIf(TRUE, "critical", "focus_low")
        ELSE pushIf(focus = 3, "warning", "focus_mid"))
    \o pushIf(trend = "down", "warning", "trend_down")
    \o pushIf(sentiment = "bad", "critical", "sentiment_bad")
    \o (IF earningsProx = "week" THEN pushIf(TRUE, "critical", "earnings_week")
        ELSE pushIf(earningsProx = "twoweeks", "warning", "earnings_twoweeks"))
    \o pushIf(sectorMom = "weak", "warning", "sector_weak")
    \o pushIf(rr # Null /\ rrLess(rr, 3, 2), "warning", "rr_low")

(***************************************************************************)
(* LAYER 2: orchestrators                                                  *)
(***************************************************************************)

\* ((currentPrice - stopLoss) / currentPrice * 100).toFixed(2), in hundredths
\* of a percent
lossPercentOf(currentPrice, stopLoss) ==
    (2 * 10000 * (currentPrice - stopLoss) + currentPrice) \div (2 * currentPrice)

\* mutation of analyzeEntry: the price score is left out of the total
analyzeEntry_noPrice(inputs) ==
    LET marketScore == numberOf(calcMarketScore(inputs.sentiment))
        focusScore  == numberOf(calcFocusScore(inputs.focus))
        pp          == calcPricePositionScore(inputs.currentPrice,
                           inputs.prevHigh, inputs.prevLow)
        totalScore  == marketScore + focusScore
        stopLoss    == calcStopLoss(inputs.currentPrice, inputs.prevLow,
                           inputs.market)
    IN  [tab |-> "short", market |-> inputs.market, totalScore |-> totalScore,
         scoreDetail |-> [marketScore |-> marketScore, focusScore |-> focusScore,
                          priceScore |-> pp.score, position |-> pp.position],
         entrySignal |-> calcEntrySignal(totalScore, inputs.focus,
                                         inputs.sentiment),
         stopLoss |-> stopLoss,
         lossPercent |-> lossPercentOf(inputs.currentPrice, stopLoss),
         positionSize |-> calcPositionSize(totalScore, inputs.currentPrice,
                              stopLoss, inputs.focus, inputs.sentiment,
                              inputs.market),
         warnings |-> calcRiskWarningsShort(inputs.focus, inputs.sentiment,
                          inputs.currentPrice, inputs.prevHigh, inputs.prevLow,
                          inputs.volume),
         rr |-> Null]

analyzeEntry(inputs) ==
    LET marketScore == numberOf(calcMarketScore(inputs.sentiment))
        focusScore  == numberOf(calcFocusScore(inputs.focus))
        pp          == calcPricePositionScore(inputs.currentPrice,
                           inputs.prevHigh, inputs.prevLow)
        totalScore  == marketScore + focusScore + pp.score
        stopLoss    == calcStopLoss(inputs.currentPrice, inputs.prevLow,
                           inputs.market)
    IN  [tab |-> "short", market |-> inputs.market, totalScore |-> totalScore,
         scoreDetail |-> [marketScore |-> marketScore, focusScore |-> focusScore,
                          priceScore |-> pp.score, position |-> pp.position],
         entrySignal |-> calcEntrySignal(totalScore, inputs.focus,
                                         inputs.sentiment),
         stopLoss |-> stopLoss,
         lossPercent |-> lossPercentOf(inputs.currentPrice, stopLoss),
         positionSize |-> calcPositionSize(totalScore, inputs.currentPrice,
                              stopLoss, inputs.focus, inputs.sentiment,
                              inputs.market),
         warnings |-> calcRiskWarningsShort(inputs.focus, inputs.sentiment,
                          inputs.currentPrice, inputs.prevHigh, inputs.prevLow,
                          inputs.volume),
         rr |-> Null]

\* src/app.js, the earlier short-only version of the engine
app_calcMarketScore(sentiment) ==
    lookupOr0([good |-> 2, normal |-> 0, bad |-> -2], sentiment)

app_calcFocusScore(focus) ==
    IF focus \in 1..5
    THEN jsNumber((1 :> -2 @@ 2 :> -1 @@ 3 :> 0 @@ 4 :> 1 @@ 5 :> 2)[focus])
    ELSE jsNumber(0)

app_calcStopLoss_floor(currentPrice, prevLow, market) ==
    IF currentPrice > prevLow
    THEN (prevLow * 995) \div 1000
    ELSE (currentPrice * 98) \div 100

app_calcStopLoss(currentPrice, prevLow, market) ==
    IF currentPrice > prevLow
    THEN roundMarket(market, prevLow * 995, 1000)
    ELSE roundMarket(market, currentPrice * 98, 100)

app_calcRiskWarnings(focus, sentiment, currentPrice, prevHigh, prevLow, volume) ==
       (IF focus <= 2 THEN pushIf(TRUE, "critical", "focus_low")
        ELSE IF focus = 3 THEN pushIf(TRUE, "warning", "focus_mid") ELSE <<>>)
    \o pushIf(sentiment = "bad", "critical", "sentiment_bad")
    \o pushIf(currentPrice > prevHigh, "warning", "above_high")
    \o pushIf(currentPrice < prevLow, "warning", "below_low")
    \o pushIf(highVolatility(prevHigh, prevLow), "warning", "volatility")
    \o pushIf(volume # Null /\ volume[1] > 0, "warning", "volume")

app_analyzeEntry(inputs) ==
    LET marketScore == numberOf(app_calcMarketScore(inputs.sentiment))
        focusScore  == numberOf(app_calcFocusScore(inputs.focus))
        pp          == app_calcPricePositionScore(inputs.currentPrice,
                           inputs.prevHigh, inputs.prevLow)
        totalScore  == marketScore + focusScore + pp.score
        stopLoss    == app_calcStopLoss(inputs.currentPrice, inputs.prevLow,
                           inputs.market)
    IN  [market |-> inputs.market, totalScore |-> totalScore,
         scoreDetail |-> [marketScore |-> marketScore, focusScore |-> focusScore,
                          priceScore |-> pp.score, position |-> pp.position],
         entrySignal |-> app_calcEntrySignal(totalScore, inputs.focus,
                                             inputs.sentiment),
         stopLoss |-> stopLoss,
         lossPercent |-> lossPercentOf(inputs.currentPrice, stopLoss),
         positionSize |-> app_calcPositionSize(totalScore, inputs.currentPrice,
                              stopLoss, inputs.focus, inputs.sentiment,
                              inputs.market),
         warnings |-> app_calcRiskWarnings(inputs.focus, inputs.sentiment,
                          inputs.currentPrice, inputs.prevHigh, inputs.prevLow,
                          inputs.volume)]

analyzeEntryMid(inputs) ==
    LET trendScore    == numberOf(calcTrendScore(inputs.trend))
        earningsScore == numberOf(calcEarningsScore(inputs.earningsProx))
        sectorScore   == numberOf(calcSectorMomentumScore(inputs.sectorMom))
        marketScore   == numberOf(calcMarketScore(inputs.sentiment))
        focusScore    == numberOf(calcFocusScore(inputs.focus))
        pp            == calcPricePositionScore(inputs.currentPrice,
                             inputs.prevHigh, inputs.prevLow)
        totalScore    == trendScore + earningsScore + sectorScore + marketScore
                         + focusScore + pp.score
        stopLoss      == calcStopLoss(inputs.currentPrice, inputs.prevLow,
                             inputs.market)
        rr            == calcRR(inputs.currentPrice, stopLoss, inputs.targetPrice,
                               inputs.market)
    IN  [tab |-> "mid", market |-> inputs.market, totalScore |-> totalScore,
         scoreDetail |-> [trendScore |-> trendScore,
                          earningsScore |-> earningsScore,
                          sectorScore |-> sectorScore,
                          marketScore |-> marketScore,
                          focusScore |-> focusScore, priceScore |-> pp.score],
         entrySignal |-> calcEntrySignalMid(totalScore, inputs.focus,
                                            inputs.earningsProx),
         stopLoss |-> stopLoss,
         lossPercent |-> lossPercentOf(inputs.currentPrice, stopLoss),
         positionSize |-> calcPositionSizeMid(totalScore, inputs.currentPrice,
                              stopLoss, inputs.focus, inputs.trend, rr),
         warnings |-> calcRiskWarningsMid(inputs.focus, inputs.trend,
                          inputs.earningsProx, inputs.sectorMom,
                          inputs.sentiment, rr),
         rr |-> rr, targetPrice |-> inputs.targetPrice]

(***************************************************************************)
(* LAYER 1c: trend and sentiment derived from closes (oldest first)        *)
(***************************************************************************)

RECURSIVE sumSeq(_)
sumSeq(s) == IF s = <<>> THEN 0 ELSE Head(s) + sumSeq(Tail(s))

maxOf(a, b) == IF a >= b THEN a ELSE b
minOf(a, b) == IF a <= b THEN a ELSE b

\* closes.slice(-w)
lastN_all(s, w) == s

lastN(s, w) == SubSeq(s, Len(s) - minOf(w, Len(s)) + 1, Len(s))

\* avg(arr) is a double: the sum is accumulated term by term and divided by
\* the length.  Closes are in the market's price unit (whole yen, or cents of
\* a dollar).  For whole numbers every partial sum is exact and the quotient
\* is the correctly rounded mean, so two averages order as the exact means
\* do.  Dollar prices are decimal fractions whose partial sums are rounded:
\* the average of len equal closes of c cents is the double c / 100 plus
\* flatMeanUlps(c, len) units in the last place (the average of six closes
\* of 1.63 is 1.6299999999999997).  The table covers the flat series the
\* model calls the function with; the other dollar series of the model have
\* no two equal exact means.
flatMeanUlps(c, len) ==
    CASE c = 49 /\ len \in {5, 6}    -> 1
      [] c = 49 /\ len \in {10, 17, 20} -> 2
      [] c = 163 /\ len \in {5, 6}   -> -1
      [] c = 163 /\ len \in {10, 20} -> -2
      [] c = 163 /\ len = 17         -> -3
      [] OTHER                       -> 0

isFlat(arr) == \A i \in 1..Len(arr) : arr[i] = arr[1]

\* how far, in units in the last place, the double avg(arr) lies from the
\* exact mean
meanUlps(market, arr) ==
    IF market = "us" /\ isFlat(arr) THEN flatMeanUlps(arr[1], Len(arr)) ELSE 0

\* closes is Null or <<sequence>>; the averages are compared cross-multiplied
\* and, where the exact means are equal, by their distance from that mean:
\* cur > maShort is cur * shortW > sum(short), maShort > maLong is
\* sum(short) * n > sum(all) * shortW.  market is not a parameter of the
\* function: it tells the unit of the closes.
calcTrendAuto(closes, market) ==
    IF closes = Null \/ Len(closes[1]) < 10 THEN Null
    ELSE LET c      == closes[1]
             n      == Len(c)
             shortW == maxOf(4, minOf(20, (n * 3) \div 10))
             sShort == sumSeq(lastN(c, shortW))
             sLong  == sumSeq(lastN(c, n))
             uShort == meanUlps(market, lastN(c, shortW))
             uLong  == meanUlps(market, lastN(c, n))
             cur    == c[n]
             curAboveShort  == \/ cur * shortW > sShort
                               \/ cur * shortW = sShort /\ 0 > uShort
             shortAboveLong == \/ sShort * n > sLong * shortW
                               \/ sShort * n = sLong * shortW /\ uShort > uLong
             curBelowShort  == \/ cur * shortW < sShort
                               \/ cur * shortW = sShort /\ 0 < uShort
             shortBelowLong == \/ sShort * n < sLong * shortW
                               \/ sShort * n = sLong * shortW /\ uShort < uLong
         IN  IF curAboveShort /\ shortAboveLong THEN <<"up">>
             ELSE IF curBelowShort /\ shortBelowLong THEN <<"down">>
             ELSE <<"side">>

\* Index closes are counted in hundredths of a point.  (cur - prev) / prev *
\* 100 is computed in doubles: where the change is exactly one percent of
\* prev the quotient is the double next to 0.01 and the product lies above
\* 1.0 (1), on it (0) or below it (-1), by the close it is taken against:
\* (4.04 - 4) / 4 * 100 = 1.0000000000000009, (3.03 - 3) / 3 * 100 =
\* 0.9999999999999934, (101 - 100) / 100 * 100 = 1.  The same holds with
\* both signs reversed for a fall of one percent.
onePercentSide(prev) ==
    CASE prev \in {100, 200, 400, 700, 800, 401300} -> 1
      [] prev \in {300, 500, 600, 900, 1000, 3800700} -> -1
      [] OTHER -> 0

\* ch5 > 1.0 is 100 * (cur - prev5d) > prev5d (index closes are positive)
calcSentimentAuto(indexCloses) ==
    IF indexCloses = Null \/ Len(indexCloses[1]) < 5 THEN Null
    ELSE LET c       == indexCloses[1]
             n       == Len(c)
             cur     == c[n]
             prev5d  == c[maxOf(0, n - 6) + 1]
             prev20d == c[maxOf(0, n - 21) + 1]
             ch5Above == \/ 100 * (cur - prev5d) > prev5d
                         \/ /\ 100 * (cur - prev5d) = prev5d
                            /\ onePercentSide(prev5d) > 0
             ch5Below == \/ 100 * (cur - prev5d) < -prev5d
                         \/ /\ 100 * (cur - prev5d) = -prev5d
                            /\ onePercentSide(prev5d) > 0
         IN  IF ch5Above /\ cur - prev20d > 0
             THEN <<"good">>
             ELSE IF ch5Below /\ cur - prev20d < 0
             THEN <<"bad">>
             ELSE <<"normal">>


(***************************************************************************)
(* LAYER 1c-A/B: the network attempts of fetchStockData                    *)
(*                                                                         *)
(* An attempt is one fetch with its own AbortController and timer.  The    *)
(* source lists nine proxy attempts (part_000:645-653), nine trend         *)
(* attempts (481-489) and three index attempts (532-534), all of the same  *)
(* shape; the model runs NumProxy, NumTrend and NumIndex of them.  Odd     *)
(* proxy and trend attempts are of type csv (Stooq), even ones json        *)
(* (Yahoo); index attempts are all json.                                   *)
(***************************************************************************)
NumProxy == 2
NumTrend == 2
NumIndex == 1

TD  == <<"td", 0>>          \* fetchFromTwelveData's time_series request
AVS == <<"av_search", 0>>   \* resolveAVSymbol's SYMBOL_SEARCH request
AVD == <<"av_daily", 0>>    \* fetchAVDailyData's TIME_SERIES_DAILY request
Proxies  == {<<"proxy", i>> : i \in 1..NumProxy}
Trends   == {<<"trend", i>> : i \in 1..NumTrend}
Indexes  == {<<"index", i>> : i \in 1..NumIndex}
Attempts == {TD, AVS, AVD} \cup Proxies \cup Trends \cup Indexes

attemptType(a) == IF a[2] % 2 = 1 THEN "csv" ELSE "json"

\* extractCode(ticker) of the ticker typed in the form, one ticker per market
tickerCode(market) == IF market = "us" THEN "AAPL" ELSE "7011"
\* sym of fetchFromTwelveData (part_000:305)
tdSymbol(market) == IF market = "us" THEN "AAPL" ELSE "7011:TSE"
\* searchTerm of resolveAVSymbol (part_000:212), the fallback symbol
searchTerm(market) == IF market = "us" THEN "AAPL.T" ELSE "7011.T"

(***************************************************************************)
(* Error messages, as token sequences.                                     *)
(***************************************************************************)
httpError      == <<"HTTP", "500">>
networkError   == <<"Failed to fetch">>
avRateLimit    == <<"[AV]", "rate limited (25/day)">>
avUnsupported(symbol) == <<"[AV]", "unsupported symbol", symbol>>
avOther        == <<"[AV]", "provider error message">>
avNoData       == <<"no data could be fetched">>
avTimeout      == <<"timeout", "please retry">>
tdNotFound(sym) == <<"symbol not found", sym>>
tdRateLimit    == <<"[TD]", "rate limited">>
tdOther        == <<"[TD]", "provider error message">>
tdNoData       == <<"no data">>
tdTimeout      == <<"[TD]", "timeout">>
proxyTimeout   == <<"timeout">>
yahooNotFound  == <<"symbol not found">>
yahooNoValid   == <<"no valid data">>
csvNoData      == <<"check the symbol", "no data">>
csvFormat      == <<"unexpected data format">>
proxyFailed    == <<"proxy fetch failed", "set a Twelve Data key">>
fetchFailed    == <<"no data could be fetched", "manual", "enter the prices">>

\* the error an attempt throws when its timer aborts the request
timeoutError(a) ==
    CASE a[1] = "td" -> tdTimeout
      [] a[1] \in {"av_search", "av_daily"} -> avTimeout
      [] OTHER -> proxyTimeout

(***************************************************************************)
(* Selection of the message thrown when phase 1 fails (part_000:556-570).  *)
(***************************************************************************)
isGeneric(m)  == \E i \in 1..Len(m) : m[i] = "manual"
isApiError(m) == Len(m) > 0 /\ m[1] \in {"[AV]", "[TD]"}

\* [...new Set(messages)]: first occurrences, in order
RECURSIVE uniqueMsgs(_)
uniqueMsgs(ms) ==
    IF ms = <<>> THEN <<>>
    ELSE LET init == uniqueMsgs(SubSeq(ms, 1, Len(ms) - 1))
             last == ms[Len(ms)]
         IN  IF \E i \in 1..Len(init) : init[i] = last THEN init
             ELSE Append(init, last)

\* msgs.find(P): <<the first message satisfying P>>, Null when none does
findMsg(msgs, P(_)) ==
    LET hits == {i \in 1..Len(msgs) : P(msgs[i])}
    IN  IF hits = {} THEN Null
        ELSE <<msgs[CHOOSE i \in hits : \A j \in hits : i <= j]>>

\* a || b on optional messages (an empty message is falsy)
orElse(a, b) == IF a # Null /\ a[1] # <<>> THEN a ELSE b

notGenericNotApi(m) == ~isGeneric(m) /\ ~isApiError(m)
notGeneric(m) == ~isGeneric(m)

\* mutation of bestMessage: the first attempt's message is always used
bestMessage_first(errors) == uniqueMsgs(errors)[1]

\* errors: the messages of e.errors, in the order of the attempts
bestMessage(errors) ==
    Only({LET best == orElse(findMsg(msgs, notGenericNotApi),
                             orElse(findMsg(msgs, notGeneric), <<msgs[1]>>))
          IN  orElse(best, <<fetchFailed>>)[1] :
          msgs \in {uniqueMsgs(errors)}})


(***************************************************************************)
(* Provider payloads, by what the adapters make of them.                   *)
(***************************************************************************)
ClosesLong  == [i \in 1..20 |-> 100 + i]      \* a compact daily series
ClosesShort == <<100, 101, 102>>              \* a newly listed symbol
TrendUp     == [i \in 1..10 |-> 100 + i]
TrendDown   == [i \in 1..10 |-> 120 - i]
IndexRising == <<10000, 10100, 10200, 10300, 10400, 10600>>
IndexBrief  == <<10000, 10100>>

\* the StockSnapshot an adapter returns; src names the attempt it came from
snapshotOf(a, closes) ==
    [src |-> a, prevHigh |-> 110, prevLow |-> 100, volume |-> <<1000>>,
     date |-> "2024-01-05", closes |-> closes]

Ok(v)   == [ok |-> TRUE,  val |-> <<v>>, msg |-> Null]
Fail(m) == [ok |-> FALSE, val |-> Null,  msg |-> m]

\* bestMatches of SYMBOL_SEARCH: region as words, currency as a word
lowerWord(w) ==
    CASE w \in {"Japan", "JAPAN", "japan"} -> "japan"
      [] w \in {"Tokyo", "tokyo"} -> "tokyo"
      [] w \in {"Frankfurt", "frankfurt"} -> "frankfurt"
      [] OTHER -> w
upperWord(w) ==
    CASE w \in {"jpy", "JPY", "Jpy"} -> "JPY"
      [] w \in {"eur", "EUR"} -> "EUR"
      [] OTHER -> w

SearchPayloads ==
    { <<>>,
      << [symbol |-> "7011.FRK", region |-> <<"Frankfurt">>, currency |-> "EUR"],
         [symbol |-> "7011.TYO", region |-> <<"Tokyo", "JAPAN">>, currency |-> "jpy"] >> }

isJpMatch(m) ==
       (\E i \in 1..Len(m.region) : lowerWord(m.region[i]) = "japan")
    \/ upperWord(m.currency) = "JPY"

pickSymbol_last(matches, market) ==
    LET hits == {i \in 1..Len(matches) : isJpMatch(matches[i])}
    IN  IF hits = {} THEN searchTerm(market)
        ELSE matches[CHOOSE i \in hits : \A j \in hits : i >= j].symbol

\* part_000:226-234: the first Japanese match, else "<code>.T"
pickSymbol(matches, market) ==
    LET hits == {i \in 1..Len(matches) : isJpMatch(matches[i])}
    IN  IF hits = {} THEN searchTerm(market)
        ELSE matches[CHOOSE i \in hits : \A j \in hits : i <= j].symbol

\* the symbol fetchAVDailyData is called with (part_000:290-292)
avDailySymbol(market, cache) ==
    IF market = "us" THEN tickerCode(market) ELSE cache[1]

\* Every way a request of attempt a can complete before its timer fires.
\* The attempts of the proxy, trend and index groups throw more messages than
\* listed (network failure, other parse errors); their groups discard the
\* message of every rejection alike (catch (_)), so one transport error and,
\* for the proxy attempts, one parse error stand for them.
responses(a, market, cache) ==
    CASE a[1] = "td" ->
           {Ok(snapshotOf(a, c)) : c \in {ClosesLong, ClosesShort}}
           \cup {Fail(m) : m \in {httpError, networkError,
                   tdNotFound(tdSymbol(market)), tdRateLimit, tdOther, tdNoData}}
      [] a[1] = "av_search" ->
           {Ok(pickSymbol(p, market)) : p \in SearchPayloads}
           \cup {Fail(m) : m \in {httpError, networkError, avRateLimit}}
      [] a[1] = "av_daily" ->
           {Ok(snapshotOf(a, c)) : c \in {ClosesLong, ClosesShort}}
           \cup {Fail(m) : m \in {httpError, networkError,
                   avUnsupported(avDailySymbol(market, cache)), avOther,
                   avRateLimit, avNoData}}
      [] a[1] = "proxy" /\ attemptType(a) = "csv" ->
           {Ok(snapshotOf(a, ClosesShort))}
           \cup {Fail(m) : m \in {httpError, csvNoData}}
      [] a[1] = "proxy" /\ attemptType(a) = "json" ->
           {Ok(snapshotOf(a, <<>>))}
           \cup {Fail(m) : m \in {httpError, yahooNotFound}}
      [] a[1] = "trend" /\ attemptType(a) = "csv" ->
           {Ok([array |-> FALSE, closes |-> TrendDown, longName |-> Null])}
           \cup {Fail(httpError)}
      [] a[1] = "trend" /\ attemptType(a) = "json" ->
           {Ok([array |-> FALSE, closes |-> TrendUp, longName |-> <<"Company">>])}
           \cup {Fail(httpError)}
      [] OTHER ->
           {Ok(c) : c \in {IndexRising, IndexBrief}}
           \cup {Fail(httpError)}


(***************************************************************************)
(* fetchStockData (part_000:542-592), as one record of the call's state    *)
(* and a function from a settled attempt to the state after every promise  *)
(* reaction it triggers has run.                                           *)
(***************************************************************************)
NoResult == [tab |-> "none"]

\* no pure function has been called on its own; resolveAVSymbol has not been
\* called outside fetchStockData
NoCall     == [fn |-> "none"]
NoResolver == [calls |-> <<>>, requests |-> 0, reads |-> 0]
\* the page as loaded: market jp selected, the fetch button enabled, the
\* ticker and price fields empty, no fetch started
NoUi == [currentMarket |-> "jp", disabled |-> FALSE, ticker |-> "",
         prices |-> Null, status |-> "", fetches |-> <<>>]

\* the attempts of phase 1 that fetchStockData starts (part_000:550-554)
avEnabled(c) == c.avKey
tdEnabled(c) == c.tdKey

\* e.errors of phase 1's Promise.any, in the order [TD, AV, proxy group]
\* (unshift puts AV, then TD, before the proxy group); Null for an attempt
\* that has not rejected.  The proxy group rejects, with one fixed message,
\* once every proxy attempt has rejected (part_000:655-657).
tdError(s) == s.errs[TD]
avError(s) == IF s.errs[AVS] # Null THEN s.errs[AVS] ELSE s.errs[AVD]
proxyError(s) ==
    IF \A p \in Proxies : s.errs[p] # Null THEN proxyFailed ELSE Null

phase1Errors(c, s) ==
       (IF tdEnabled(c) THEN <<tdError(s)>> ELSE <<>>)
    \o (IF avEnabled(c) THEN <<avError(s)>> ELSE <<>>)
    \o <<proxyError(s)>>

allRejected(errors) == \A i \in 1..Len(errors) : errors[i] # Null

\* a fulfilled Promise.any drops the rejection reasons it had collected
forget(errors, group) ==
    [a \in DOMAIN errors |-> IF a \in group THEN Null ELSE errors[a]]

\* mutation of startPhase2: the trend history is fetched whatever the
\* snapshot carries
startPhase2_always(s, snap) ==
    [s EXCEPT !.call = "phase2",
              !.stockData = <<snap>>,
              !.errs = forget(@, {TD, AVS, AVD} \cup Proxies),
              !.trendState = [done |-> FALSE, data |-> Null],
              !.inflight = (@ \cup Trends) \cup Indexes]

\* part_000:573-580: phase 2 starts in the reaction to phase 1's fulfilment
startPhase2(s, snap) ==
    LET reuse == Len(snap.closes) >= 20
    IN  [s EXCEPT !.call = "phase2",
                  !.stockData = <<snap>>,
                  !.errs = forget(@, {TD, AVS, AVD} \cup Proxies),
                  !.trendState =
                      IF reuse
                      THEN [done |-> TRUE,
                            data |-> <<[array |-> TRUE, closes |-> snap.closes,
                                        longName |-> Null]>>]
                      ELSE [done |-> FALSE, data |-> Null],
                  !.inflight = (@ \cup (IF reuse THEN {} ELSE Trends))
                               \cup Indexes]

\* mutation of phase1Fulfil: a later fulfilment replaces the snapshot
phase1Fulfil_last(s, snap) ==
    IF s.call = "phase1" THEN startPhase2(s, snap)
    ELSE IF s.call = "phase2" THEN [s EXCEPT !.stockData = <<snap>>]
    ELSE s

\* Promise.any of phase 1: the first fulfilment settles it
phase1Fulfil(s, snap) ==
    IF s.call = "phase1" THEN startPhase2(s, snap) ELSE s

\* Promise.any of phase 1 rejects once every attempt has rejected
phase1Reject(c, s) ==
    IF s.call = "phase1" /\ allRejected(phase1Errors(c, s))
    THEN Only({[s EXCEPT !.call = "rejected",
                         !.outcome = [kind |-> "rejected", message |-> best]] :
               best \in {bestMessage(phase1Errors(c, s))}})
    ELSE s

\* mutation of phase2Settle: Promise.all semantics, a failed branch rejects
phase2Settle_all(c, s) ==
    IF s.call = "phase2" /\ s.trendState.done /\ s.indexState.done
    THEN IF s.trendState.data = Null \/ s.indexState.data = Null
         THEN [s EXCEPT !.call = "rejected",
                        !.outcome = [kind |-> "rejected", message |-> fetchFailed]]
         ELSE Only({[s EXCEPT !.call = "resolved",
                              !.outcome = [kind |-> "resolved",
                                  snapshot |-> s.stockData[1],
                                  trend |-> calcTrendAuto(closes, c.market),
                                  sentiment |-> calcSentimentAuto(index),
                                  longName |-> s.trendState.data[1].longName]] :
                      closes \in {<<s.trendState.data[1].closes>>},
                      index \in {s.indexState.data}})
    ELSE s

\* part_000:582-591: the reaction to Promise.allSettled
phase2Settle(c, s) ==
    IF s.call = "phase2" /\ s.trendState.done /\ s.indexState.done
    THEN LET trendData   == s.trendState.data
             trendCloses == IF trendData = Null THEN Null
                            ELSE <<trendData[1].closes>>
             longName    == IF trendData = Null THEN Null
                            ELSE trendData[1].longName
         IN  Only({[s EXCEPT !.call = "resolved",
                             !.outcome = [kind |-> "resolved",
                                          snapshot |-> s.stockData[1],
                                          trend |-> calcTrendAuto(closes, c.market),
                                          sentiment |-> calcSentimentAuto(index),
                                          longName |-> longName]] :
                     closes \in {trendCloses}, index \in {s.indexState.data}})
    ELSE s

\* Promise.any inside fetchTrendData / fetchIndexData, with its catch: the
\* group's value is the first fulfilment, or null once every attempt rejected
groupSettle(g, group, errors, r) ==
    IF g.done THEN g
    ELSE IF r.ok THEN [done |-> TRUE, data |-> r.val]
    ELSE IF \A t \in group : errors[t] # Null THEN [done |-> TRUE, data |-> Null]
    ELSE g

\* whether the Promise.any that attempt a belongs to is still pending: it
\* keeps the rejection reasons (its errors array) until it settles, and the
\* settlement of a later attempt has no reaction left to run
collecting(s, a) ==
    CASE a[1] \in {"td", "av_search", "av_daily", "proxy"} -> s.call = "phase1"
      [] a[1] = "trend" -> ~s.trendState.done
      [] OTHER -> ~s.indexState.done

\* The state after attempt a has settled with r.
settle(c, s, a, r) ==
    Only({
      CASE a[1] \in {"td", "av_daily", "proxy"} ->
             IF r.ok THEN phase1Fulfil(s1, r.val[1]) ELSE phase1Reject(c, s1)
        [] a[1] = "av_search" ->
             IF r.ok
             THEN [s1 EXCEPT !.avSymbol = r.val, !.inflight = @ \cup {AVD}]
             ELSE phase1Reject(c, s1)
        [] a[1] = "trend" ->
             Only({phase2Settle(c, [s1 EXCEPT !.trendState = g,
                       !.errs = IF g.data # Null THEN forget(@, Trends) ELSE @]) :
                   g \in {groupSettle(s1.trendState, Trends, s1.errs, r)}})
        [] OTHER ->
             Only({phase2Settle(c, [s1 EXCEPT !.indexState = g,
                       !.errs = IF g.data # Null THEN forget(@, Indexes) ELSE @]) :
                   g \in {groupSettle(s1.indexState, Indexes, s1.errs, r)}}) :
      s1 \in {[s EXCEPT !.inflight = @ \ {a},
                        !.errs[a] = IF collecting(s, a) THEN r.msg ELSE @]}})


fetchState ==
    [call |-> call, inflight |-> inflight, errs |-> errs, avSymbol |-> avSymbol,
     stockData |-> stockData, trendState |-> trendState,
     indexState |-> indexState, outcome |-> outcome]

becomes(s) ==
    /\ call' = s.call
    /\ inflight' = s.inflight
    /\ errs' = s.errs
    /\ avSymbol' = s.avSymbol
    /\ stockData' = s.stockData
    /\ trendState' = s.trendState
    /\ indexState' = s.indexState
    /\ outcome' = s.outcome

\* resolveAVSymbol returns without a request for market us and on a cache hit
\* (part_000:205-209)
needsSearch(c, cache) == c.market # "us" /\ cache = Null

\* mutation of StartFetch: the index-history requests start with phase 1
StartFetch_eager ==
    /\ call = "idle"
    /\ call' = "phase1"
    /\ inflight' = Proxies \cup Indexes
                   \cup (IF avEnabled(cfg)
                         THEN {IF needsSearch(cfg, avSymbol) THEN AVS ELSE AVD}
                         ELSE {})
                   \cup (IF tdEnabled(cfg) THEN {TD} ELSE {})
    /\ UNCHANGED <<cfg, errs, avSymbol, stockData, trendState, indexState,
                   outcome, form, analysis, pure, resolver, ui>>

\* fetchStockData is called: every enabled phase-1 request is issued
StartFetch ==
    /\ call = "idle"
    /\ call' = "phase1"
    /\ inflight' = Proxies
                   \cup (IF avEnabled(cfg)
                         THEN {IF needsSearch(cfg, avSymbol) THEN AVS ELSE AVD}
                         ELSE {})
                   \cup (IF tdEnabled(cfg) THEN {TD} ELSE {})
    /\ UNCHANGED <<cfg, errs, avSymbol, stockData, trendState, indexState,
                   outcome, form, analysis, pure, resolver, ui>>

\* the response of attempt a arrives before its timer fires
Respond(a) ==
    /\ a \in inflight
    /\ \E r \in responses(a, cfg.market, avSymbol) :
           \E t \in {settle(cfg, fetchState, a, r)} : becomes(t)
    /\ UNCHANGED <<cfg, form, analysis, pure, resolver, ui>>

\* mutation of TimerFires: the timer does not abort the request
TimerFires_noAbort(a) ==
    /\ a \in inflight
    /\ UNCHANGED vars

\* the timer of attempt a fires first: ctrl.abort(), the fetch rejects with
\* an AbortError, which the attempt rethrows as its timeout error
TimerFires(a) ==
    /\ a \in inflight
    /\ \E t \in {settle(cfg, fetchState, a, Fail(timeoutError(a)))} : becomes(t)
    /\ UNCHANGED <<cfg, form, analysis, pure, resolver, ui>>

(***************************************************************************)
(* The submit handler (part_000:972-1011): the validated form is analysed. *)
(***************************************************************************)
SubmitShort ==
    /\ form.tab = "short"
    /\ analysis' = analyzeEntry(form)
    /\ UNCHANGED <<form, cfg, call, inflight, errs, avSymbol, stockData,
                   trendState, indexState, outcome, pure, resolver, ui>>

SubmitMid ==
    /\ form.tab = "mid"
    /\ analysis' = analyzeEntryMid(form)
    /\ UNCHANGED <<form, cfg, call, inflight, errs, avSymbol, stockData,
                   trendState, indexState, outcome, pure, resolver, ui>>

(***************************************************************************)
(* Input domains.                                                          *)
(***************************************************************************)
SmallPriceMax == 2
PriceMax      == 111

Markets      == {"jp", "us"}
Sentiments   == {"good", "normal", "bad"}
FocusLevels  == 1..5
TrendInputs  == {"up", "side", "down"}
EarningsProx == {"far", "month", "twoweeks", "week", "unknown"}
SectorMoms   == {"strong", "neutral", "weak"}

SmallPrices   == 1..SmallPriceMax
CurrentPrices == SmallPrices \cup (95..PriceMax)
Bands ==
    {b \in (SmallPrices \cup {100}) \X (SmallPrices \cup {100, 101, 110}) :
         b[1] <= b[2]}
Volumes       == {Null, <<0>>, <<1000>>}
MidPrices     == {1, 99, 100, 101, 105, PriceMax}
TargetPrices  == {Null, <<0>>} \cup {<<t>> : t \in {100, 102, 104, 105, 106, 115}}

\* the forms that pass the submit handler's validation (part_000:982-984)
ShortForms ==
    {[tab |-> "short", market |-> m, currentPrice |-> p, prevLow |-> b[1],
      prevHigh |-> b[2], volume |-> v, sentiment |-> se, focus |-> f,
      trend |-> "side", earningsProx |-> "unknown", sectorMom |-> "neutral",
      targetPrice |-> Null] :
        m \in Markets, p \in CurrentPrices, b \in Bands, v \in Volumes,
        se \in Sentiments, f \in FocusLevels}

MidForms ==
    {[tab |-> "mid", market |-> m, currentPrice |-> p, prevLow |-> 100,
      prevHigh |-> 110, volume |-> Null, sentiment |-> se, focus |-> f,
      trend |-> t, earningsProx |-> e, sectorMom |-> sm, targetPrice |-> tp] :
        m \in Markets, p \in MidPrices, se \in Sentiments, f \in FocusLevels,
        t \in TrendInputs, e \in EarningsProx, sm \in SectorMoms,
        tp \in TargetPrices}

FetchConfigs ==
    {c \in [market : Markets, avKey : BOOLEAN, tdKey : BOOLEAN] : TRUE}

\* fetch side before the fetch button is pressed
FetchIdle(c, cache) ==
    /\ cfg = c
    /\ call = "idle"
    /\ inflight = {}
    /\ errs = [a \in Attempts |-> Null]
    /\ avSymbol = cache
    /\ stockData = Null
    /\ trendState = [done |-> FALSE, data |-> Null]
    /\ indexState = [done |-> FALSE, data |-> Null]
    /\ outcome = [kind |-> "pending"]

InitEngine ==
    /\ form \in ShortForms \cup MidForms
    /\ analysis = NoResult
    /\ FetchIdle([market |-> "jp", avKey |-> FALSE, tdKey |-> FALSE], Null)
    /\ pure = NoCall /\ resolver = NoResolver /\ ui = NoUi

NextEngine == SubmitShort \/ SubmitMid

SpecEngine == InitEngine /\ [][NextEngine]_vars

\* a cached symbol exists only where resolveAVSymbol has stored one before
InitFetch ==
    /\ form \in {f \in ShortForms : f.currentPrice = 100 /\ f.prevLow = 100
                    /\ f.prevHigh = 110 /\ f.volume = Null /\ f.focus = 3
                    /\ f.sentiment = "normal" /\ f.market = "jp"}
    /\ analysis = NoResult
    /\ \E c \in FetchConfigs :
         \E cache \in {Null} \cup (IF c.market = "jp" /\ c.avKey
                                   THEN {<<"7011.TYO">>} ELSE {}) :
             FetchIdle(c, cache)
    /\ pure = NoCall /\ resolver = NoResolver /\ ui = NoUi

NextFetch ==
    \/ StartFetch
    \/ \E a \in Attempts : Respond(a)
    \/ \E a \in Attempts : TimerFires(a)

SpecFetch == InitFetch /\ [][NextFetch]_vars

\* timers fire: while requests are in flight, a pending timer eventually
\* fires (every attempt arms its own setTimeout before its fetch)
SpecFetchFair ==
    /\ SpecFetch
    /\ WF_vars(\E a \in Attempts : TimerFires(a))

(***************************************************************************)
(* A pure function called on its own, with inputs beyond those the two     *)
(* handlers pass.                                                          *)
(***************************************************************************)
\* keys that no score table maps
\* ------------------------------------------------------------------------
\* Ticker strings are sequences of one-character strings.
CasePairs == {<<"a", "A">>, <<"j", "J">>, <<"o", "O">>, <<"p", "P">>,
              <<"s", "S">>, <<"t", "T">>, <<"u", "U">>, <<"y", "Y">>}
Whitespace == {" "}

toUpperChar(ch) ==
    IF \E p \in CasePairs : p[1] = ch
    THEN (CHOOSE p \in CasePairs : p[1] = ch)[2] ELSE ch
toLowerChar(ch) ==
    IF \E p \in CasePairs : p[2] = ch
    THEN (CHOOSE p \in CasePairs : p[2] = ch)[1] ELSE ch
toUpperCase(str) == [i \in 1..Len(str) |-> toUpperChar(str[i])]
toLowerCase(str) == [i \in 1..Len(str) |-> toLowerChar(str[i])]

\* String.prototype.trim
trim(str) ==
    LET kept == {i \in 1..Len(str) : str[i] \notin Whitespace}
    IN  IF kept = {} THEN <<>>
        ELSE SubSeq(str, CHOOSE i \in kept : \A j \in kept : i <= j,
                         CHOOSE i \in kept : \A j \in kept : i >= j)

\* str.replace(/(alt1|alt2|...)$/i, ''): the alternatives are written in
\* lower case; the match is the leftmost one that reaches the end of the
\* string, and only that one occurrence is removed (no g flag)
endsWith(str, alt) ==
    /\ Len(str) >= Len(alt)
    /\ toLowerCase(SubSeq(str, Len(str) - Len(alt) + 1, Len(str))) = alt
replaceAtEnd(str, alts) ==
    LET hits == {alt \in alts : endsWith(str, alt)}
    IN  IF hits = {} THEN str
        ELSE LET alt == CHOOSE a \in hits : \A b \in hits : Len(a) >= Len(b)
             IN  SubSeq(str, 1, Len(str) - Len(alt))

\* str.replace(/\s.*$/, ''): everything from the first whitespace on
replaceFromSpace(str) ==
    LET at == {i \in 1..Len(str) : str[i] \in Whitespace}
    IN  IF at = {} THEN str
        ELSE SubSeq(str, 1, (CHOOSE i \in at : \A j \in at : i <= j) - 1)

DotT   == <<".", "t">>
DotTYO == <<".", "t", "y", "o">>
DotJP  == <<".", "j", "p">>
DotUS  == <<".", "u", "s">>

extractCode(ticker) ==
    toUpperCase(replaceFromSpace(replaceAtEnd(replaceAtEnd(trim(ticker),
        {DotT, DotTYO, DotJP}), {DotUS})))

toStooqSymbol(ticker, market) ==
    LET code == toLowerCase(replaceFromSpace(replaceAtEnd(replaceAtEnd(
                    trim(ticker), {DotT, DotJP}), {DotUS})))
    IN  IF market = "us" THEN code \o DotUS ELSE code \o DotJP

\* ------------------------------------------------------------------------
\* The adapters' step from the rows of a payload to a snapshot.  A cell of a
\* row is <<n>> for the number n, or Null where the key is missing, null or
\* not a number; parseFloat of such a cell is NaN, written Null as well.
\* The date of a row is its position in the payload.  volume is
\* parseFloat(cell) || null: a missing cell and a zero both give null.
orNull(cell) == IF cell = <<0>> THEN Null ELSE cell
Snapshot(rows, i) ==
    [ok |-> TRUE, prevHigh |-> rows[i].high, prevLow |-> rows[i].low,
     volume |-> orNull(rows[i].volume), date |-> i, msg |-> Null]
Thrown(m) ==
    [ok |-> FALSE, prevHigh |-> Null, prevLow |-> Null, volume |-> Null,
     date |-> 0, msg |-> m]
typeError == <<"TypeError">>

\* part_000:267-279, rows by ascending date: the latest row, unchecked
fetchAVDailyData(rows) ==
    IF rows = <<>> THEN Thrown(typeError)
    ELSE Snapshot(rows, Len(rows))

\* part_000:325-339, rows newest first: values[0], unchecked
fetchFromTwelveData(rows) ==
    IF rows = <<>> THEN Thrown(tdNoData)
    ELSE Snapshot(rows, 1)

\* part_000:378-410, the lines after the header: the last line, NaN refused
parseStooqCSV(rows) ==
    IF rows = <<>> THEN Thrown(csvNoData)
    ELSE LET last == rows[Len(rows)]
         IN  IF last.high = Null \/ last.low = Null THEN Thrown(csvNoData)
             ELSE Snapshot(rows, Len(rows))

parseYahoo_last(rows) ==
    IF rows = <<>> THEN Thrown(yahooNoValid) ELSE Snapshot(rows, Len(rows))

\* part_000:612: i steps down from the last bar while the bar lacks a high
\* or a low; 0 stands for the i < 0 of the source
RECURSIVE yahooBar(_, _)
yahooBar(rows, i) ==
    IF i >= 1 /\ (rows[i].high = Null \/ rows[i].low = Null)
    THEN yahooBar(rows, i - 1) ELSE i

\* part_000:610-621: the last row that has both a high and a low
parseYahoo(rows) ==
    LET i == yahooBar(rows, Len(rows))
    IN  IF i < 1 THEN Thrown(yahooNoValid) ELSE Snapshot(rows, i)

Unmapped == {"", "GOOD", "excellent"}

ScoreCalls ==
         {[fn |-> "calcMarketScore", input |-> k] :
             k \in Sentiments \cup Unmapped \cup ObjectPrototype}
    \cup {[fn |-> "calcFocusScore", input |-> k] : k \in 0..6}
    \cup {[fn |-> "calcTrendScore", input |-> k] :
             k \in TrendInputs \cup Unmapped \cup ObjectPrototype}
    \cup {[fn |-> "calcEarningsScore", input |-> k] :
             k \in EarningsProx \cup Unmapped \cup ObjectPrototype}
    \cup {[fn |-> "calcSectorMomentumScore", input |-> k] :
             k \in SectorMoms \cup Unmapped \cup ObjectPrototype}

\* n closes: a up to the last k, then b, and c as the last close
stepSeries(n, k, a, b, c) ==
    [i \in 1..n |-> IF i = n THEN c ELSE IF i > n - k THEN b ELSE a]

\* lengths around the limits of the short window (4 up to 16 closes, 20 from
\* 67 closes on) and below the 10 closes the function asks for
TrendLens  == {9, 10, 16, 17, 20, 66, 67, 70}
TrendSteps == {4, 5, 6, 19, 20, 21}
Levels     == 1..3

\* n closes that rise by one unit a day and by jump more on day k, from
\* base up (dir = 1) or from base + 1000 down (dir = -1)
rampSeries(n, k, jump, base, dir) ==
    [i \in 1..n |->
        IF dir = 1 THEN base + i + (IF i >= k THEN jump ELSE 0)
        ELSE base + 1000 - i - (IF i >= k THEN jump ELSE 0)]

RampCalls ==
    {[fn |-> "calcTrendAuto",
      input |-> [closes |-> <<rampSeries(n, k, jump, base, dir)>>, market |-> m]] :
        n \in TrendLens, k \in {2, 5, 9}, jump \in {0, 100}, base \in {0, 4999},
        dir \in {1, -1}, m \in Markets}

TrendCalls ==
         {[fn |-> "calcTrendAuto",
           input |-> [closes |-> <<stepSeries(n, k, a, b, c)>>, market |-> "jp"]] :
             n \in TrendLens, k \in TrendSteps, a \in Levels, b \in Levels,
             c \in Levels}
    \cup {[fn |-> "calcTrendAuto",
           input |-> [closes |-> <<[i \in 1..n |-> c]>>, market |-> "us"]] :
             n \in {10, 17, 20}, c \in {49, 100, 163}}
    \cup {[fn |-> "calcTrendAuto", input |-> [closes |-> Null, market |-> m]] :
             m \in Markets}

\* n index closes: the close 20 positions before the last, the close 5
\* positions before the last, the last close, and a filler everywhere else
indexSeries(n, fill, p20, p5, c) ==
    [i \in 1..n |-> IF i = n THEN c
                    ELSE IF i = n - 5 THEN p5
                    ELSE IF i = n - 20 THEN p20 ELSE fill]

\* lengths below the 5 closes asked for, below either lookback, and past both
SentimentLens  == {4, 5, 6, 20, 21, 22}
\* closes of 3, 4 and 100 points, and the moves away from them in percent
SentimentBases == {300, 400, 10000}
Moves          == {-2, -1, 0, 1, 2}

SentimentCalls ==
         {[fn |-> "calcSentimentAuto",
           input |-> <<indexSeries(n, (b * (100 + f)) \div 100,
                                   (b * (100 + m20)) \div 100, b,
                                   (b * (100 + m)) \div 100)>>] :
             n \in SentimentLens, b \in SentimentBases, f \in {-2, 2},
             m20 \in {-2, 0, 2}, m \in Moves}
    \cup {[fn |-> "calcSentimentAuto", input |-> Null]}

\* tickers: a code, a venue suffix or none, a company name or none
Codes    == {<<"7", "0", "1", "1">>, <<"A", "a", "p">>}
Suffixes == {<<>>, <<".", "T">>, <<".", "t">>, <<".", "T", "Y", "O">>,
             <<".", "t", "y", "o">>, <<".", "J", "P">>, <<".", "j", "p">>,
             <<".", "U", "S">>, <<".", "u", "s">>}
Names    == {<<>>, <<" ", "M">>, <<" ", " ", "M", " ", "H">>,
             <<" ", "M", ".", "T">>}
Tickers  == [code : Codes, suffix : Suffixes, name : Names]
tickerOf(t) == t.code \o t.suffix \o t.name

TickerCalls ==
         {[fn |-> "extractCode", input |-> t] : t \in Tickers}
    \cup {[fn |-> "toStooqSymbol", input |-> [ticker |-> t, market |-> m]] :
             t \in Tickers, m \in Markets}

\* payload rows: a high and a low, each a number (also zero or negative)
\* or missing
Cells   == {Null, <<-5>>, <<0>>, <<100>>, <<110>>}

Rows    == [high : Cells, low : Cells, volume : Volumes]
FullRow == [high |-> <<110>>, low |-> <<100>>, volume |-> <<1000>>]
HalfRow == [high |-> <<110>>, low |-> Null, volume |-> <<1000>>]
Adapters == {"fetchAVDailyData", "fetchFromTwelveData", "parseStooqCSV", "parseYahoo"}

AdapterCalls ==
    {[fn |-> f, input |-> rows] :
        f \in Adapters,
        rows \in {<<>>} \cup {<<r>> : r \in Rows}
                       \cup {<<FullRow, r>> : r \in Rows}
                       \cup {<<r, FullRow>> : r \in Rows}
                       \cup {<<r, HalfRow, HalfRow>> : r \in Rows}}

PureCalls ==
    ScoreCalls \cup TrendCalls \cup RampCalls \cup SentimentCalls \cup TickerCalls
        \cup AdapterCalls

applyPure(fn, input) ==
    CASE fn = "calcMarketScore"         -> calcMarketScore(input)
      [] fn = "calcFocusScore"          -> calcFocusScore(input)
      [] fn = "calcTrendScore"          -> calcTrendScore(input)
      [] fn = "calcEarningsScore"       -> calcEarningsScore(input)
      [] fn = "calcSectorMomentumScore" -> calcSectorMomentumScore(input)
      [] fn = "calcTrendAuto" -> calcTrendAuto(input.closes, input.market)
      [] fn = "calcSentimentAuto" -> calcSentimentAuto(input)
      [] fn = "extractCode" -> extractCode(tickerOf(input))
      [] fn = "fetchAVDailyData" -> fetchAVDailyData(input)
      [] fn = "fetchFromTwelveData" -> fetchFromTwelveData(input)
      [] fn = "parseStooqCSV" -> parseStooqCSV(input)
      [] fn = "parseYahoo" -> parseYahoo(input)
      [] fn = "toStooqSymbol" -> toStooqSymbol(tickerOf(input.ticker), input.market)

\* the form is not submitted and nothing is fetched
IdleForm ==
    [tab |-> "short", market |-> "jp", currentPrice |-> 100, prevLow |-> 100,
     prevHigh |-> 110, volume |-> Null, sentiment |-> "normal", focus |-> 3,
     trend |-> "side", earningsProx |-> "unknown", sectorMom |-> "neutral",
     targetPrice |-> Null]

InitPure ==
    /\ pure \in {[fn |-> c.fn, input |-> c.input, output |-> Null] :
                     c \in PureCalls}
    /\ resolver = NoResolver /\ ui = NoUi
    /\ form = IdleForm
    /\ analysis = NoResult
    /\ FetchIdle([market |-> "jp", avKey |-> FALSE, tdKey |-> FALSE], Null)

\* the function is called and returns
CallPure ==
    /\ pure.fn # "none" /\ pure.output = Null
    /\ pure' = [pure EXCEPT !.output = <<applyPure(pure.fn, pure.input)>>]
    /\ UNCHANGED <<form, analysis, cfg, call, inflight, errs, avSymbol,
                   stockData, trendState, indexState, outcome, resolver, ui>>

NextPure == CallPure

SpecPure == InitPure /\ [][NextPure]_vars

\* ------------------------------------------------------------------------
\* resolveAVSymbol called on its own, any number of calls at a time.  A call
\* runs without interruption up to its fetch (part_000:203-221) and again
\* from the response to its return or throw (part_000:222-242).

MaxCalls == 3

\* bestMatches of the SYMBOL_SEARCH body; a match may lack region or currency
ResolvePayloads ==
    SearchPayloads \cup
    { << [symbol |-> "7011.TOK", region |-> <<"Tokyo", "Japan">>, currency |-> ""] >>,
      << [symbol |-> "7011.FRK", region |-> <<"Frankfurt">>, currency |-> "EUR"],
         [symbol |-> "7011.JPX", region |-> <<>>, currency |-> "Jpy"],
         [symbol |-> "7011.TYO", region |-> <<"Tokyo", "JAPAN">>, currency |-> "JPY"] >>,
      << [symbol |-> "7011.FRK", region |-> <<"Frankfurt">>, currency |-> "EUR"] >> }

\* the JSON body: with a Note / Information key or without, with a
\* bestMatches key or without (an 'Error Message' body has neither)
NoBody == [note |-> FALSE, bestMatches |-> Null]
SearchBodies ==
         {[note |-> TRUE, bestMatches |-> Null]}
    \cup {[note |-> FALSE, bestMatches |-> m] :
             m \in {Null} \cup {<<p>> : p \in ResolvePayloads}}

\* what fetch and res.json() hand to the call: fetch rejects, the status is
\* not ok, or a body
SearchResponses ==
         {[kind |-> k, body |-> NoBody] : k \in {"network", "http"}}
    \cup {[kind |-> "body", body |-> b] : b \in SearchBodies}
TimerAbort == [kind |-> "abort", body |-> NoBody]

resolveStart_noCache(market, cache) ==
    IF market = "us"
    THEN [pc |-> "returned", value |-> <<tickerCode(market)>>,
          requested |-> FALSE, read |-> FALSE]
    ELSE [pc |-> "waiting", value |-> Null, requested |-> TRUE, read |-> TRUE]

\* part_000:203-221: the call up to its fetch
resolveStart(market, cache) ==
    IF market = "us"
    THEN [pc |-> "returned", value |-> <<tickerCode(market)>>,
          requested |-> FALSE, read |-> FALSE]
    ELSE IF cache # Null
    THEN [pc |-> "returned", value |-> cache, requested |-> FALSE, read |-> TRUE]
    ELSE [pc |-> "waiting", value |-> Null, requested |-> TRUE, read |-> TRUE]

resolveSettle_cacheFirst(market, cache, res) ==
    LET matches == IF res.body.bestMatches = Null THEN <<>>
                   ELSE res.body.bestMatches[1]
        symbol  == pickSymbol(matches, market)
    IN  IF res.kind = "body" /\ ~res.body.note
        THEN [pc |-> "returned", value |-> <<symbol>>, msg |-> Null,
              cache |-> <<symbol>>]
        ELSE [pc |-> "rejected", value |-> Null,
              msg |-> CASE res.kind = "network" -> networkError
                        [] res.kind = "http" -> httpError
                        [] res.kind = "abort" -> avTimeout
                        [] OTHER -> avRateLimit,
              cache |-> IF res.kind = "body" THEN <<symbol>> ELSE cache]

\* part_000:222-242: the call from the response on
resolveSettle(market, cache, res) ==
    CASE res.kind = "network" ->
           [pc |-> "rejected", value |-> Null, msg |-> networkError, cache |-> cache]
      [] res.kind = "http" ->
           [pc |-> "rejected", value |-> Null, msg |-> httpError, cache |-> cache]
      [] res.kind = "abort" ->
           [pc |-> "rejected", value |-> Null, msg |-> avTimeout, cache |-> cache]
      [] res.kind = "body" /\ res.body.note ->
           [pc |-> "rejected", value |-> Null, msg |-> avRateLimit, cache |-> cache]
      [] OTHER ->
           LET matches == IF res.body.bestMatches = Null THEN <<>>
                          ELSE res.body.bestMatches[1]
               symbol  == pickSymbol(matches, market)
           IN  [pc |-> "returned", value |-> <<symbol>>, msg |-> Null,
                cache |-> <<symbol>>]

InitResolve ==
    /\ resolver = NoResolver /\ ui = NoUi
    /\ pure = NoCall
    /\ form = IdleForm
    /\ analysis = NoResult
    /\ \E cache \in {Null, <<"7011.TYO">>} :
           FetchIdle([market |-> "jp", avKey |-> TRUE, tdKey |-> FALSE], cache)

\* resolveAVSymbol(ticker, market, apiKey) is called
ResolveCall ==
    /\ Len(resolver.calls) < MaxCalls
    /\ \E market \in Markets :
         \E st \in {resolveStart(market, avSymbol)} :
           resolver' =
             [calls |-> Append(resolver.calls,
                  [market |-> market, pc |-> st.pc, value |-> st.value,
                   msg |-> Null, requested |-> st.requested, read |-> st.read,
                   wrote |-> FALSE, res |-> Null,
                   prior |-> {i \in 1..Len(resolver.calls) :
                                 resolver.calls[i].pc = "returned"}]),
              requests |-> resolver.requests + (IF st.requested THEN 1 ELSE 0),
              reads |-> resolver.reads + (IF st.read THEN 1 ELSE 0)]
    /\ UNCHANGED <<form, analysis, cfg, call, inflight, errs, avSymbol,
                   stockData, trendState, indexState, outcome, pure, ui>>

\* how call i goes on once res has arrived
resolveContinue(i, res) ==
    /\ i \in 1..Len(resolver.calls)
    /\ resolver.calls[i].pc = "waiting"
    /\ \E st \in {resolveSettle(resolver.calls[i].market, avSymbol, res)} :
         /\ resolver' = [resolver EXCEPT !.calls[i] =
                 [@ EXCEPT !.pc = st.pc, !.value = st.value, !.msg = st.msg,
                           !.res = <<res>>, !.wrote = (st.pc = "returned")]]
         /\ avSymbol' = st.cache
    /\ UNCHANGED <<form, analysis, cfg, call, inflight, errs,
                   stockData, trendState, indexState, outcome, pure, ui>>

\* the search request of a call completes
SearchResponds ==
    \E i \in 1..MaxCalls : \E res \in SearchResponses : resolveContinue(i, res)

\* the 10 s timer of a call aborts its request
SearchTimer ==
    \E i \in 1..MaxCalls : resolveContinue(i, TimerAbort)

NextResolve == ResolveCall \/ SearchResponds \/ SearchTimer

SpecResolve == InitResolve /\ [][NextResolve]_vars

\* ------------------------------------------------------------------------
\* The page: the market selector and the fetch button (part_000:877-892,
\* 925-969).  fetchStockData is seen from its caller: a promise that is
\* pending, then resolves with the data of the market it was called with or
\* rejects.  A disabled button receives no click.

MaxFetches == 3

TickerTexts == {"", " ", "7011"}
isBlank(text) == text \in {"", " "}

InitUI ==
    /\ ui = NoUi
    /\ pure = NoCall
    /\ resolver = NoResolver
    /\ form = IdleForm
    /\ analysis = NoResult
    /\ FetchIdle([market |-> "jp", avKey |-> FALSE, tdKey |-> FALSE], Null)

uiStays ==
    UNCHANGED <<form, analysis, cfg, call, inflight, errs, avSymbol, stockData,
                trendState, indexState, outcome, pure, resolver>>

\* the user edits the ticker field
TypeTicker ==
    /\ \E text \in TickerTexts : ui' = [ui EXCEPT !.ticker = text]
    /\ uiStays

\* part_000:878-891: a market button is clicked
ClickMarket ==
    /\ \E market \in Markets :
           ui' = [ui EXCEPT !.currentMarket = market, !.prices = Null,
                            !.ticker = "", !.status = ""]
    /\ uiStays

\* mutation of ClickFetch: the button is left enabled during the fetch
ClickFetch_enabled ==
    /\ ~ui.disabled
    /\ Len(ui.fetches) < MaxFetches
    /\ IF isBlank(ui.ticker)
       THEN ui' = [ui EXCEPT !.status = "error_empty", !.disabled = FALSE]
       ELSE ui' = [ui EXCEPT !.status = "loading",
                       !.fetches = Append(@, [market |-> ui.currentMarket,
                                              pc |-> "waiting"])]
    /\ uiStays

\* part_000:926-934 and 965-968: the fetch button is clicked; up to the
\* await, or to the early return and its finally
ClickFetch ==
    /\ ~ui.disabled
    /\ Len(ui.fetches) < MaxFetches
    /\ IF isBlank(ui.ticker)
       THEN ui' = [ui EXCEPT !.status = "error_empty", !.disabled = FALSE]
       ELSE ui' = [ui EXCEPT !.disabled = TRUE, !.status = "loading",
                       !.fetches = Append(@, [market |-> ui.currentMarket,
                                              pc |-> "waiting"])]
    /\ uiStays

\* part_000:934-963, 965-968: fetchStockData resolves; the handler fills
\* the fields and runs its finally
FetchResolves ==
    /\ \E i \in 1..Len(ui.fetches) :
           /\ ui.fetches[i].pc = "waiting"
           /\ ui' = [ui EXCEPT !.fetches[i].pc = "resolved",
                               !.prices = <<ui.fetches[i].market>>,
                               !.status = "success", !.disabled = FALSE]
    /\ uiStays

\* part_000:963-968: fetchStockData rejects; catch and finally
FetchRejects ==
    /\ \E i \in 1..Len(ui.fetches) :
           /\ ui.fetches[i].pc = "waiting"
           /\ ui' = [ui EXCEPT !.fetches[i].pc = "rejected",
                               !.status = "error", !.disabled = FALSE]
    /\ uiStays

NextUI == TypeTicker \/ ClickMarket \/ ClickFetch \/ FetchResolves \/ FetchRejects

SpecUI == InitUI /\ [][NextUI]_vars


-----------------------------------------------------------------------------
(***************************************************************************)
(* Properties.                                                             *)
(***************************************************************************)
MaxScore == 10
Scores   == (0 - MaxScore)..MaxScore

Analysed == analysis # NoResult

\* C1: calcStopLoss returns a stop strictly below currentPrice, for every
\* positive currentPrice and prevLow in the market's price unit, in both
\* branches and after the market's rounding.
C1_StopBelowPrice ==
    Analysed => analysis.stopLoss < form.currentPrice

\* C2: the totalScore returned by analyzeEntry / analyzeEntryMid is exactly
\* the sum of the integer values of the returned scoreDetail.
C2_TotalIsSum ==
    /\ (Analysed /\ analysis.tab = "short") =>
           analysis.totalScore = analysis.scoreDetail.marketScore
                                 + analysis.scoreDetail.focusScore
                                 + analysis.scoreDetail.priceScore
    /\ (Analysed /\ analysis.tab = "mid") =>
           analysis.totalScore = analysis.scoreDetail.trendScore
                                 + analysis.scoreDetail.earningsScore
                                 + analysis.scoreDetail.sectorScore
                                 + analysis.scoreDetail.marketScore
                                 + analysis.scoreDetail.focusScore
                                 + analysis.scoreDetail.priceScore

C2_Witness ==
    /\ Analysed /\ analysis.tab = "mid"
    /\ analysis.scoreDetail.trendScore = 3
    /\ analysis.scoreDetail.earningsScore = -3
    /\ analysis.scoreDetail.sectorScore = -2
    /\ analysis.scoreDetail.marketScore = 2
    /\ analysis.scoreDetail.focusScore = -1
    /\ analysis.scoreDetail.priceScore = -2
    /\ analysis.totalScore = -3

\* the attempts whose fulfilment fulfils phase 1 (the proxy group fulfils
\* with the first proxy attempt that fulfils)
SnapshotAttempts == {TD, AVD} \cup Proxies

\* attempt a fulfils in this step while phase 1 is pending: a rejection in
\* phase 1 always leaves its reason in errs
FulfilsFirst(a) ==
    /\ call = "phase1"
    /\ a \in inflight /\ a \notin inflight'
    /\ errs'[a] = Null

isNotFound(m) ==
    m[1] = "symbol not found" \/ (Len(m) >= 2 /\ m[2] = "unsupported symbol")
isRateLimit(m) == m \in {avRateLimit, tdRateLimit}
isTransport(m) ==
    m \in {httpError, networkError, avTimeout, tdTimeout, proxyTimeout,
           proxyFailed}

\* C4: when every phase-1 attempt fails, one failure being a symbol-not-found
\* error and the others rate-limit or transport errors, the error thrown
\* carries the symbol-not-found message, whichever provider reported it.
C4_NotFoundSurfaced ==
    LET e == phase1Errors(cfg, fetchState)
    IN  (/\ call = "rejected"
         /\ \E i \in 1..Len(e) :
               /\ isNotFound(e[i])
               /\ \A j \in (1..Len(e)) \ {i} :
                     isRateLimit(e[j]) \/ isTransport(e[j]))
        => isNotFound(outcome.message)

\* C5: when every phase-1 attempt fails, a provider-internal message (rate
\* limit) beats a generic transport message (HTTP status, network failure,
\* timeout): with a rate-limit failure among failures that are otherwise
\* transport failures, the rate-limit message is the one thrown.
C5_ProviderBeatsTransport ==
    LET e == phase1Errors(cfg, fetchState)
    IN  (/\ call = "rejected"
         /\ \E i \in 1..Len(e) : isRateLimit(e[i])
         /\ \A j \in 1..Len(e) : isRateLimit(e[j]) \/ isTransport(e[j]))
        => isRateLimit(outcome.message)

Settled == call \in {"resolved", "rejected"}

\* C6: an attempt still in flight when its timer fires is aborted and rejects
\* with its timeout error, which differs from every error a response can
\* produce; hence, timers firing, a started call of fetchStockData settles.
C6_TimeoutsSettle ==
    /\ [](\A a \in inflight : \A r \in responses(a, cfg.market, avSymbol) :
             ~r.ok => r.msg # timeoutError(a))
    /\ [][ \A a \in Attempts :
             (a \in inflight /\ TimerFires(a)) =>
                 /\ a \notin inflight'
                 /\ collecting(fetchState, a) => errs'[a] = timeoutError(a) ]_vars
    /\ (call = "phase1") ~> Settled

C6_Witness ==
    /\ call = "rejected"
    /\ cfg.tdKey /\ cfg.avKey
    /\ errs[TD] = tdTimeout
    /\ errs[AVS] = avTimeout
    /\ \A p \in Proxies : errs[p] = proxyTimeout

Phase2Attempts == Trends \cup Indexes

\* C7: no trend-history or index-history request is issued before phase 1
\* has settled with a snapshot, and none is ever issued when phase 1 fails
\* (in these positions of the call no phase-2 request is in flight and none
\* has left a settlement or an error behind).
C7_Phase2AfterPhase1 ==
    /\ (call \in {"idle", "phase1", "rejected"}) =>
           /\ inflight \cap Phase2Attempts = {}
           /\ \A a \in Phase2Attempts : errs[a] = Null
           /\ ~trendState.done /\ ~indexState.done
           /\ stockData = Null
    /\ (inflight \cap Phase2Attempts # {}) => stockData # Null

C7_Witness ==
    /\ call = "phase2"
    /\ Trends \subseteq inflight
    /\ Indexes \subseteq inflight
    /\ stockData # Null /\ stockData[1].src = TD

\* C8: once phase 1 has produced a snapshot the call never rejects and
\* (timers firing) resolves; a failed trend fetch only makes trend null, a
\* failed index fetch only makes sentiment null, and each field is derived
\* from its own fetch whatever happened to the other.
C8_Phase2Tolerant ==
    /\ [](stockData # Null => call # "rejected")
    /\ [](call = "resolved" =>
            /\ outcome.snapshot = stockData[1]
            /\ trendState.data = Null => outcome.trend = Null
            /\ indexState.data = Null => outcome.sentiment = Null
            /\ (trendState.data # Null /\ trendState.data[1].closes = TrendUp)
                   => outcome.trend = <<"up">>
            /\ (trendState.data # Null /\ trendState.data[1].closes = TrendDown)
                   => outcome.trend = <<"down">>
            /\ (trendState.data # Null /\ trendState.data[1].closes = ClosesLong)
                   => outcome.trend = <<"up">>
            /\ indexState.data = <<IndexRising>> => outcome.sentiment = <<"good">>
            /\ indexState.data = <<IndexBrief>> => outcome.sentiment = Null)
    /\ (stockData # Null) ~> (call = "resolved")

C8_Witness ==
    /\ call = "resolved"
    /\ trendState.done /\ trendState.data = Null
    /\ \E t \in Trends : errs[t] = timeoutError(t)
    /\ indexState.data = <<IndexRising>>
    /\ outcome.trend = Null
    /\ outcome.sentiment = <<"good">>

\* C9: calcEntrySignal and calcEntrySignalMid return 'ng' whenever
\* focus <= 2, for every totalScore and every value of the other inputs.
C9_LowFocusIsNg ==
    form.focus <= 2 =>
        /\ \A ts \in Scores : \A se \in Sentiments :
               calcEntrySignal(ts, form.focus, se).signal = "ng"
        /\ \A ts \in Scores : \A e \in EarningsProx :
               calcEntrySignalMid(ts, form.focus, e).signal = "ng"
        /\ Analysed => analysis.entrySignal.signal = "ng"

C9_Witness ==
    /\ Analysed /\ analysis.tab = "mid"
    /\ form.focus = 1
    /\ analysis.totalScore >= 5
    /\ analysis.entrySignal.signal = "ng"

\* C10: in the short horizon calcEntrySignal returns 'ng' whenever
\* sentiment = bad and focus < 4, for every totalScore (both versions).
C10_BadSentimentIsNg ==
    (form.sentiment = "bad" /\ form.focus < 4) =>
        /\ \A ts \in Scores :
               /\ calcEntrySignal(ts, form.focus, form.sentiment).signal = "ng"
               /\ app_calcEntrySignal(ts, form.focus, form.sentiment).signal = "ng"
        /\ (Analysed /\ analysis.tab = "short") =>
               analysis.entrySignal.signal = "ng"

C10_Witness ==
    /\ Analysed /\ analysis.tab = "short"
    /\ form.sentiment = "bad" /\ form.focus = 3
    /\ analysis.entrySignal = [signal |-> "ng", rule |-> "hard_sentiment_focus"]

\* C11: in the mid horizon, for focus >= 3 and earningsProx = week,
\* calcEntrySignalMid returns 'watch' whenever totalScore < 5 and 'ok'
\* whenever totalScore >= 5.
C11_EarningsWeekIsWatch ==
    (form.focus >= 3 /\ form.earningsProx = "week") =>
        /\ \A ts \in Scores :
               calcEntrySignalMid(ts, form.focus, form.earningsProx).signal
                   = IF ts < 5 THEN "watch" ELSE "ok"
        /\ (Analysed /\ analysis.tab = "mid") =>
               analysis.entrySignal.signal
                   = IF analysis.totalScore < 5 THEN "watch" ELSE "ok"

\* the earnings rule overrides a score that alone would give 'ng'
C11_Witness ==
    /\ Analysed /\ analysis.tab = "mid"
    /\ form.focus >= 3 /\ form.earningsProx = "week"
    /\ analysis.totalScore < 1
    /\ analysis.entrySignal = [signal |-> "watch", rule |-> "earnings_week"]

\* the hard rules of the two horizons
hardRuleShort(focus, sentiment) ==
    focus <= 2 \/ (sentiment = "bad" /\ focus < 4)

hardRuleMid(totalScore, focus, earningsProx) ==
    focus <= 2 \/ (earningsProx = "week" /\ totalScore < 5)

\* the signal the thresholds ok and watch give to a score
byThresholds(totalScore, ok, watch) ==
    CASE totalScore >= ok                       -> "ok"
      [] totalScore >= watch /\ totalScore < ok -> "watch"
      [] OTHER                                  -> "ng"

\* C12: when no hard rule fires the entry signal is 'ok' iff totalScore >= 3
\* (short) / 5 (mid), 'watch' iff 0 <= totalScore < 3 (short) /
\* 1 <= totalScore < 5 (mid), and 'ng' otherwise.
C12_ScoreThresholds ==
    /\ ~hardRuleShort(form.focus, form.sentiment) =>
          /\ \A ts \in Scores :
                 calcEntrySignal(ts, form.focus, form.sentiment).signal
                     = byThresholds(ts, 3, 0)
          /\ (Analysed /\ analysis.tab = "short") =>
                 analysis.entrySignal.signal
                     = byThresholds(analysis.totalScore, 3, 0)
    /\ \A ts \in Scores :
          ~hardRuleMid(ts, form.focus, form.earningsProx) =>
              calcEntrySignalMid(ts, form.focus, form.earningsProx).signal
                  = byThresholds(ts, 5, 1)
    /\ (Analysed /\ analysis.tab = "mid"
           /\ ~hardRuleMid(analysis.totalScore, form.focus, form.earningsProx)) =>
          analysis.entrySignal.signal = byThresholds(analysis.totalScore, 5, 1)

\* a mid analysis whose score is just below the watch threshold
C12_Witness ==
    /\ Analysed /\ analysis.tab = "mid"
    /\ ~hardRuleMid(analysis.totalScore, form.focus, form.earningsProx)
    /\ analysis.totalScore = 0
    /\ analysis.entrySignal.signal = "ng"

\* the classification of a price by the rules of the specification, each
\* rule stated with the negation of the rules before it
inSupportBand(currentPrice, prevLow) ==
    currentPrice >= prevLow /\ 100 * currentPrice <= 101 * prevLow

inResistBand(currentPrice, prevHigh) ==
    currentPrice <= prevHigh /\ 100 * currentPrice >= 99 * prevHigh

positionIs(r, currentPrice, prevHigh, prevLow) ==
    /\ r.position = "above_high" <=> currentPrice > prevHigh
    /\ r.position = "below_low" <=>
           (currentPrice <= prevHigh /\ currentPrice < prevLow)
    /\ r.position = "near_support" <=>
           (currentPrice <= prevHigh /\ inSupportBand(currentPrice, prevLow))
    /\ r.position = "near_resistance" <=>
           (currentPrice >= prevLow /\ inResistBand(currentPrice, prevHigh)
            /\ ~inSupportBand(currentPrice, prevLow))
    /\ r.position = "range" <=>
           (currentPrice >= prevLow /\ currentPrice <= prevHigh
            /\ ~inSupportBand(currentPrice, prevLow)
            /\ ~inResistBand(currentPrice, prevHigh))
    /\ r.score = (CASE r.position = "above_high"      -> -2
                   [] r.position = "below_low"       -> -3
                   [] r.position = "near_support"    -> 1
                   [] r.position = "near_resistance" -> -1
                   [] OTHER                          -> 0)

\* C13: calcPricePositionScore classifies by the first matching rule in the
\* order above_high (-2), below_low (-3), near_support (+1, currentPrice <=
\* 1.01 * prevLow), near_resistance (-1, currentPrice >= 0.99 * prevHigh),
\* range (0); the boundaries are inclusive, and a price in both bands is
\* near_support (both versions of the function).
C13_PricePosition ==
    /\ positionIs(calcPricePositionScore(form.currentPrice, form.prevHigh,
                                         form.prevLow),
                  form.currentPrice, form.prevHigh, form.prevLow)
    /\ positionIs(app_calcPricePositionScore(form.currentPrice, form.prevHigh,
                                             form.prevLow),
                  form.currentPrice, form.prevHigh, form.prevLow)
    /\ (Analysed /\ analysis.tab = "short") =>
          positionIs([score |-> analysis.scoreDetail.priceScore,
                      position |-> analysis.scoreDetail.position],
                     form.currentPrice, form.prevHigh, form.prevLow)
    /\ (Analysed /\ analysis.tab = "mid") =>
          \E pos \in {"above_high", "below_low", "near_support",
                       "near_resistance", "range"} :
              positionIs([score |-> analysis.scoreDetail.priceScore,
                          position |-> pos],
                         form.currentPrice, form.prevHigh, form.prevLow)

\* a narrow range: the price is the previous high and lies in both bands
C13_Witness ==
    /\ Analysed /\ analysis.tab = "short"
    /\ form.currentPrice = form.prevHigh /\ form.prevLow < form.prevHigh
    /\ inSupportBand(form.currentPrice, form.prevLow)
    /\ inResistBand(form.currentPrice, form.prevHigh)
    /\ analysis.scoreDetail.position = "near_support"
    /\ analysis.scoreDetail.priceScore = 1

\* s is n / d floored to a whole unit
isFloorOf(s, n, d) == d * s <= n /\ n < d * (s + 1)

\* s is a whole unit nearest to n / d (two decimals of a dollar amount)
isNearestTo(s, n, d) == 2 * d * s - d <= 2 * n /\ 2 * n <= 2 * d * s + d

isRoundOf(market, s, n, d) ==
    IF market = "us" THEN isNearestTo(s, n, d) ELSE isFloorOf(s, n, d)

\* C14: calcStopLoss returns round(prevLow * 0.995) when currentPrice >
\* prevLow and round(currentPrice * 0.98) when currentPrice <= prevLow, round
\* being rounding to two decimals for market 'us' and the floor for every
\* other market (105/100/'jp' gives 99; 95/100/'us' gives 93.10).
C14_StopLossBranches ==
    /\ calcStopLoss(105, 100, "jp") = 99
    /\ calcStopLoss(9500, 10000, "us") = 9310
    /\ LET s == calcStopLoss(form.currentPrice, form.prevLow, form.market)
       IN  IF form.currentPrice > form.prevLow
           THEN isRoundOf(form.market, s, 995 * form.prevLow, 1000)
           ELSE isRoundOf(form.market, s, 98 * form.currentPrice, 100)
    /\ Analysed =>
          IF form.currentPrice > form.prevLow
          THEN isRoundOf(form.market, analysis.stopLoss,
                         995 * form.prevLow, 1000)
          ELSE isRoundOf(form.market, analysis.stopLoss,
                         98 * form.currentPrice, 100)

\* the price equals the previous low: the stop is 2% below the price
C14_Witness ==
    /\ Analysed
    /\ form.currentPrice = 100 /\ form.prevLow = 100
    /\ analysis.stopLoss = 98

\* rr is what the specification gives for the three prices: null without a
\* target, with a target at or below the price, or with no risk; otherwise
\* the ratio (targetPrice - currentPrice) / (currentPrice - stopLoss)
isRROf(rr, currentPrice, stopLoss, targetPrice) ==
    IF targetPrice = Null \/ targetPrice[1] <= currentPrice
       \/ currentPrice - stopLoss <= 0
    THEN rr = Null
    ELSE /\ rr # Null
         /\ rr[1] = targetPrice[1] - currentPrice
         /\ rr[2] = currentPrice - stopLoss

\* C15: calcRR returns null when targetPrice is absent, when targetPrice <=
\* currentPrice, or when currentPrice - stopLoss <= 0, and otherwise
\* (targetPrice - currentPrice) / (currentPrice - stopLoss) (100/95/115 gives
\* 3.0); the short-horizon analyzeEntry always returns rr = null.
C15_RiskReward ==
    /\ LET rr == calcRR(100, 95, <<115>>, "jp") IN rr[1] = 3 * rr[2]
    /\ calcRR(100, 95, <<90>>, "jp") = Null
    /\ \A stopLoss \in {form.currentPrice - 1, form.currentPrice,
                         form.currentPrice + 1} :
          isRROf(calcRR(form.currentPrice, stopLoss, form.targetPrice,
                        form.market),
                 form.currentPrice, stopLoss, form.targetPrice)
    /\ (Analysed /\ analysis.tab = "mid") =>
          isRROf(analysis.rr, form.currentPrice, analysis.stopLoss,
                 form.targetPrice)
    /\ (Analysed /\ analysis.tab = "short") => analysis.rr = Null

\* a mid analysis with a reward of three times the risk
C15_Witness ==
    /\ Analysed /\ analysis.tab = "mid"
    /\ analysis.rr # Null
    /\ analysis.rr[1] = 3 * analysis.rr[2]

\* the tiers of the specification, on the risk percentage
\* (currentPrice - stopLoss) / currentPrice * 100 as a number
riskPercentAtMost(currentPrice, stopLoss, k) ==
    100 * (currentPrice - stopLoss) <= k * currentPrice

tierShort(score, currentPrice, stopLoss, focus, sentiment) ==
    IF score >= 4 /\ riskPercentAtMost(currentPrice, stopLoss, 2) /\ focus >= 4
       /\ sentiment = "good" THEN "large"
    ELSE IF score >= 2 /\ riskPercentAtMost(currentPrice, stopLoss, 3)
            /\ focus >= 3 THEN "medium"
    ELSE IF score >= 0 /\ riskPercentAtMost(currentPrice, stopLoss, 5)
         THEN "small"
    ELSE "pass"

\* C16: short-horizon calcPositionSize, with riskPercent = (currentPrice -
\* stopLoss) / currentPrice * 100, returns the first matching tier: 'large'
\* iff score >= 4, riskPercent <= 2, focus >= 4 and sentiment = good; else
\* 'medium' iff score >= 2, riskPercent <= 3 and focus >= 3; else 'small'
\* iff score >= 0 and riskPercent <= 5; else 'pass'.
C16_SizeTiers ==
    (Analysed /\ analysis.tab = "short") =>
        /\ analysis.positionSize
               = tierShort(analysis.totalScore, form.currentPrice,
                           analysis.stopLoss, form.focus, form.sentiment)
        /\ app_calcPositionSize(analysis.totalScore, form.currentPrice,
                                analysis.stopLoss, form.focus, form.sentiment,
                                form.market)
               = tierShort(analysis.totalScore, form.currentPrice,
                           analysis.stopLoss, form.focus, form.sentiment)

\* the value rr is at least n / d; there is no value when rr is null
ratioAtLeast(rr, n, d) ==
    /\ rr # Null
    /\ \/ d * rr[1] > n * rr[2]
       \/ d * rr[1] = n * rr[2] /\ ~rr[3]

tierMid(score, focus, trend, rr) ==
    IF score >= 7 /\ ratioAtLeast(rr, 5, 2) /\ focus >= 4 /\ trend = "up"
    THEN "large"
    ELSE IF score >= 5 /\ ratioAtLeast(rr, 2, 1) /\ focus >= 3 THEN "medium"
    ELSE IF score >= 2 /\ ratioAtLeast(rr, 3, 2) THEN "small"
    ELSE "pass"

\* C17: mid-horizon calcPositionSizeMid returns the first matching tier:
\* 'large' iff score >= 7, rr >= 2.5, focus >= 4 and trend = up; else
\* 'medium' iff score >= 5, rr >= 2.0 and focus >= 3; else 'small' iff
\* score >= 2 and rr >= 1.5; else 'pass'.  A null rr is compared as 0, so
\* with a null rr the size is 'pass' for every score, focus and trend.
C17_SizeTiersMid ==
    /\ \A score \in Scores :
          calcPositionSizeMid(score, form.currentPrice, 0, form.focus,
                              form.trend, Null) = "pass"
    /\ (Analysed /\ analysis.tab = "mid") =>
          /\ analysis.positionSize
                 = tierMid(analysis.totalScore, form.focus, form.trend,
                           analysis.rr)
          /\ (form.targetPrice = Null
                 \/ form.targetPrice[1] <= form.currentPrice) =>
                analysis.positionSize = "pass"

\* every other condition of the large tier holds, and rr is null
C17_Witness ==
    /\ Analysed /\ analysis.tab = "mid"
    /\ analysis.totalScore >= 7 /\ form.focus >= 4 /\ form.trend = "up"
    /\ analysis.rr = Null
    /\ analysis.positionSize = "pass"

\* pass < small < medium < large
sizeRank(size) ==
    CASE size = "pass"   -> 0
      [] size = "small"  -> 1
      [] size = "medium" -> 2
      [] size = "large"  -> 3

\* the order of two computed risk percentages: that of the exact quotients,
\* and where these are equal that of their doubles
riskLeq(market1, currentPrice1, stopLoss1, market2, currentPrice2, stopLoss2) ==
    LET r1 == (currentPrice1 - stopLoss1) * currentPrice2
        r2 == (currentPrice2 - stopLoss2) * currentPrice1
    IN  r1 < r2 \/ (r1 = r2 /\ (riskAbove(market1) => riskAbove(market2)))

\* stops of a price of 100 units, for risks of 0% to 6%
OtherStops == {100 - k : k \in 0..6}

\* C18: short-horizon position sizing is monotone in risk: for fixed score,
\* focus and sentiment and any two risk percentages r1 <= r2, the size
\* assigned at r2 is never larger than the size assigned at r1, in the order
\* pass < small < medium < large.
C18_SizeMonotone ==
    (Analysed /\ analysis.tab = "short") =>
        \A market2 \in Markets : \A stopLoss2 \in OtherStops :
            LET size2 == calcPositionSize(analysis.totalScore, 100, stopLoss2,
                                          form.focus, form.sentiment, market2)
            IN  /\ riskLeq(form.market, form.currentPrice, analysis.stopLoss,
                           market2, 100, stopLoss2)
                      => sizeRank(size2) <= sizeRank(analysis.positionSize)
                /\ riskLeq(market2, 100, stopLoss2,
                           form.market, form.currentPrice, analysis.stopLoss)
                      => sizeRank(analysis.positionSize) <= sizeRank(size2)

\* a large position, and the same inputs at higher risks in every lower tier
C18_Witness ==
    /\ Analysed /\ analysis.tab = "short"
    /\ analysis.positionSize = "large"
    /\ calcPositionSize(analysis.totalScore, 100, 97, form.focus,
                        form.sentiment, "jp") = "medium"
    /\ calcPositionSize(analysis.totalScore, 100, 95, form.focus,
                        form.sentiment, "jp") = "small"
    /\ calcPositionSize(analysis.totalScore, 100, 94, form.focus,
                        form.sentiment, "jp") = "pass"

\* the list w has an entry of this level for this check
hasEntry(w, level, kind) ==
    \E i \in 1..Len(w) : w[i] = [level |-> level, kind |-> kind]

\* C19: in every analysis, short or mid, the warnings list contains a
\* warning-level entry when currentPrice > prevHigh, one when currentPrice <
\* prevLow, and one when (prevHigh - prevLow) / prevLow * 100 > 5, each
\* independently of the others; of the listed checks only the volume check
\* is restricted to the short horizon.
C19_PriceWarnings ==
    Analysed =>
        /\ form.currentPrice > form.prevHigh =>
               hasEntry(analysis.warnings, "warning", "above_high")
        /\ form.currentPrice < form.prevLow =>
               hasEntry(analysis.warnings, "warning", "below_low")
        /\ 100 * (form.prevHigh - form.prevLow) > 5 * form.prevLow =>
               hasEntry(analysis.warnings, "warning", "volatility")

\* the number of entries of w for the checks kinds
countKinds(w, kinds) ==
    Cardinality({i \in 1..Len(w) : w[i].kind \in kinds})

\* the number of entries of w of this level for this check
countEntry(w, level, kind) ==
    Cardinality({i \in 1..Len(w) : w[i] = [level |-> level, kind |-> kind]})

oneIf(cond) == IF cond THEN 1 ELSE 0

\* C20: in both horizons the warnings list contains exactly one low-focus
\* entry when focus <= 3 (critical iff focus <= 2, warning iff focus = 3,
\* never both) and none when focus >= 4, and a critical bad-sentiment entry
\* iff sentiment = bad; in the mid horizon it contains exactly one earnings
\* entry when earningsProx is week (critical) or twoweeks (warning), never
\* both, and none otherwise.
C20_FocusSentimentEarnings ==
    Analysed =>
        LET w == analysis.warnings
        IN  /\ countKinds(w, {"focus_low", "focus_mid"})
                   = oneIf(form.focus <= 3)
            /\ countEntry(w, "critical", "focus_low") = oneIf(form.focus <= 2)
            /\ countEntry(w, "warning", "focus_mid") = oneIf(form.focus = 3)
            /\ countKinds(w, {"sentiment_bad"})
                   = oneIf(form.sentiment = "bad")
            /\ countEntry(w, "critical", "sentiment_bad")
                   = oneIf(form.sentiment = "bad")
            /\ analysis.tab = "mid" =>
                  /\ countKinds(w, {"earnings_week", "earnings_twoweeks"})
                         = oneIf(form.earningsProx \in {"week", "twoweeks"})
                  /\ countEntry(w, "critical", "earnings_week")
                         = oneIf(form.earningsProx = "week")
                  /\ countEntry(w, "warning", "earnings_twoweeks")
                         = oneIf(form.earningsProx = "twoweeks")

\* a mid analysis with low focus, bad sentiment and earnings within a week:
\* one critical entry for each
C20_Witness ==
    /\ Analysed /\ analysis.tab = "mid"
    /\ form.focus = 2 /\ form.sentiment = "bad" /\ form.earningsProx = "week"
    /\ countEntry(analysis.warnings, "critical", "focus_low") = 1
    /\ countEntry(analysis.warnings, "critical", "sentiment_bad") = 1
    /\ countEntry(analysis.warnings, "critical", "earnings_week") = 1
    /\ countKinds(analysis.warnings, {"focus_mid", "earnings_twoweeks"}) = 0

\* the function fn has been called on its own and has returned
Returned(fn) == pure.fn = fn /\ pure.output # Null

\* the tabled value of a sub-score function, 0 outside the table
tabled(fn, input) ==
    CASE fn = "calcMarketScore" ->
           (CASE input = "good" -> 2 [] input = "bad" -> -2 [] OTHER -> 0)
      [] fn = "calcTrendScore" ->
           (CASE input = "up" -> 3 [] input = "down" -> -3 [] OTHER -> 0)
      [] fn = "calcEarningsScore" ->
           (CASE input = "far" -> 1 [] input = "twoweeks" -> -1
              [] input = "week" -> -3 [] OTHER -> 0)
      [] fn = "calcSectorMomentumScore" ->
           (CASE input = "strong" -> 2 [] input = "weak" -> -2 [] OTHER -> 0)
      [] fn = "calcFocusScore" ->
           (IF input \in 1..5 THEN input - 3 ELSE 0)

SubScoreFns ==
    {"calcMarketScore", "calcFocusScore", "calcTrendScore",
     "calcEarningsScore", "calcSectorMomentumScore"}

\* C21: each sub-score function returns exactly its tabled value on its
\* domain and returns the integer 0 for every input outside that domain.
C21_SubScoresTabled ==
    \A fn \in SubScoreFns :
        Returned(fn) =>
            pure.output[1] = [type |-> "number",
                              value |-> tabled(fn, pure.input)]

\* C30: for every valid input, in both horizons, whenever the entry signal
\* returned by analyzeEntry / analyzeEntryMid is 'ng' the recommended
\* position size is 'pass'.
C30_NgMeansPass ==
    (Analysed /\ analysis.entrySignal.signal = "ng") =>
        analysis.positionSize = "pass"

\* the mean of the last w of the closes c is sum / w; w, cur, maShort and
\* maLong as the specification defines them, the means as exact numbers
trendOf(c) ==
    LET n       == Len(c)
        w       == IF (3 * n) \div 10 < 4 THEN 4
                   ELSE IF (3 * n) \div 10 > 20 THEN 20 ELSE (3 * n) \div 10
        sumLast(m) == sumSeq(SubSeq(c, n - m + 1, n))
        cur     == c[n]
    IN  CASE cur * w > sumLast(w) /\ sumLast(w) * n > sumLast(n) * w -> "up"
          [] cur * w < sumLast(w) /\ sumLast(w) * n < sumLast(n) * w -> "down"
          [] OTHER -> "side"

\* C27: calcTrendAuto returns null for a missing sequence or fewer than 10
\* closes; otherwise, with w = max(4, min(20, floor(0.3 * n))), maShort the
\* mean of the last w closes, maLong the mean of all n closes and cur the
\* last close, it returns 'up' iff cur > maShort > maLong, 'down' iff
\* cur < maShort < maLong, and 'side' in every other case.
C27_TrendAuto ==
    Returned("calcTrendAuto") =>
        IF pure.input.closes = Null \/ Len(pure.input.closes[1]) < 10
        THEN pure.output[1] = Null
        ELSE pure.output[1] = <<trendOf(pure.input.closes[1])>>

\* ch5 and ch20 as the specification defines them: the change of the last
\* close against the close 5 (20) positions earlier, the first close when
\* the history is shorter, compared with one percent and with zero
sentimentOf(c) ==
    LET n       == Len(c)
        cur     == c[n]
        prev5d  == IF n > 5 THEN c[n - 5] ELSE c[1]
        prev20d == IF n > 20 THEN c[n - 20] ELSE c[1]
    IN  CASE 100 * (cur - prev5d) > prev5d /\ cur > prev20d -> "good"
          [] 100 * (cur - prev5d) < -prev5d /\ cur < prev20d -> "bad"
          [] OTHER -> "normal"

\* C28: calcSentimentAuto returns null for a missing sequence or fewer than
\* 5 index closes; otherwise, with ch5 the percentage change of the last
\* close against the close 5 positions earlier and ch20 against the close 20
\* positions earlier (each lookback clamped to the first close), it returns
\* 'good' iff ch5 > 1.0 and ch20 > 0, 'bad' iff ch5 < -1.0 and ch20 < 0, and
\* 'normal' otherwise.
C28_SentimentAuto ==
    Returned("calcSentimentAuto") =>
        IF pure.input = Null \/ Len(pure.input[1]) < 5
        THEN pure.output[1] = Null
        ELSE pure.output[1] = <<sentimentOf(pure.input[1])>>

stooqOf(code, market) ==
    toLowerCase(code) \o (IF market = "us" THEN DotUS ELSE DotJP)

\* C29: for a ticker made of a code, an optional venue suffix (.T, .TYO,
\* .JP, .US in any letter case) and an optional company name after
\* whitespace, extractCode returns exactly the upper-cased code and
\* toStooqSymbol the lower-cased code plus '.jp' or '.us'; both agree on the
\* code, and extractCode applied to its own output changes nothing.
C29_Normalisers ==
    /\ Returned("extractCode") =>
           /\ pure.output[1] = toUpperCase(pure.input.code)
           /\ extractCode(pure.output[1]) = pure.output[1]
           /\ \A m \in Markets :
                  toStooqSymbol(tickerOf(pure.input), m) = stooqOf(pure.output[1], m)
    /\ Returned("toStooqSymbol") =>
           pure.output[1] = stooqOf(pure.input.ticker.code, pure.input.market)

\* ------------------------------------------------------------------------
\* resolveAVSymbol

CallIds == 1..Len(resolver.calls)
JpCalls == {i \in CallIds : resolver.calls[i].market = "jp"}
callOf(i) == resolver.calls[i]
searchesOf(I) == Cardinality({i \in I : callOf(i).requested})

\* C22 (as stated): any two resolutions of the same Japanese code issue at
\* most one search request between them, and the second returns the value
\* the first cached, unchanged.
C22_AnyTwoResolutions ==
    \A i, j \in JpCalls :
        i < j =>
            /\ searchesOf({i, j}) <= 1
            /\ (callOf(i).pc # "waiting" /\ callOf(j).pc # "waiting") =>
                   /\ callOf(j).pc = "returned"
                   /\ callOf(i).pc = "returned" => callOf(j).value = callOf(i).value

\* C22 (amended): a resolution of a Japanese code that starts after an
\* earlier resolution of that code has returned issues no search request and
\* returns at once; the two issue at most one request between them, and when
\* no third resolution of the code was made the second returns the value the
\* first returned, unchanged.
C22_SecondAfterFirstReturned ==
    \A i, j \in JpCalls :
        i \in callOf(j).prior =>
            /\ ~callOf(j).requested
            /\ callOf(j).pc = "returned"
            /\ callOf(j).value # Null
            /\ searchesOf({i, j}) <= 1
            /\ JpCalls = {i, j} => callOf(j).value = callOf(i).value

C22_Witness ==
    \E i, j \in JpCalls :
        /\ i \in callOf(j).prior
        /\ callOf(i).requested
        /\ callOf(j).pc = "returned"
        /\ callOf(j).value = callOf(i).value
        /\ resolver.requests = 1

\* C23: once the cache holds a symbol for a code, the entry is never
\* overwritten with a different value nor removed, whatever the interleaving
\* of the calls, and every resolution of the code that returns afterwards
\* returns that symbol.
C23_CacheEntryStable ==
    [][avSymbol # Null =>
          /\ avSymbol' = avSymbol
          /\ \A i \in JpCalls :
                (callOf(i).pc = "waiting" /\ resolver'.calls[i].pc = "returned")
                    => resolver'.calls[i].value = avSymbol]_vars

\* the match the claim names: the first whose region contains 'japan' or
\* whose currency is JPY, whatever the letter case
namedSymbol(matches, market) ==
    IF \E i \in 1..Len(matches) : isJpMatch(matches[i])
    THEN LET first == CHOOSE i \in 1..Len(matches) :
                          /\ isJpMatch(matches[i])
                          /\ \A j \in 1..(i - 1) : ~isJpMatch(matches[j])
         IN  matches[first].symbol
    ELSE searchTerm(market)

bodyMatches(res) ==
    IF res.body.bestMatches = Null THEN <<>> ELSE res.body.bestMatches[1]

\* C24: on a cache miss whose search succeeds, resolveAVSymbol returns the
\* symbol of the first match whose region contains 'japan' or whose currency
\* is JPY (in any letter case), '<code>.T' when no match qualifies, and that
\* symbol is in the cache when the call returns; for market 'us' it returns
\* the code with no search request and no cache access.
C24_ResolvedSymbol ==
    [][\A i \in 1..Len(resolver'.calls) :
          LET after == resolver'.calls[i]
              fresh == i > Len(resolver.calls)
          IN  /\ (~fresh /\ callOf(i).pc = "waiting" /\ after.pc = "returned") =>
                    /\ after.value =
                         <<namedSymbol(bodyMatches(after.res[1]), after.market)>>
                    /\ avSymbol' = after.value
              /\ (fresh /\ after.market = "us") =>
                    /\ after.pc = "returned"
                    /\ after.value = <<tickerCode("us")>>
                    /\ resolver'.requests = resolver.requests
                    /\ resolver'.reads = resolver.reads
                    /\ avSymbol' = avSymbol]_vars

\* a call answered with matches of which the first does not qualify and two
\* later ones do has returned, and a call for market us has returned
C24_Witness ==
    /\ \E i \in JpCalls :
          /\ callOf(i).pc = "returned" /\ callOf(i).requested
          /\ Len(bodyMatches(callOf(i).res[1])) = 3
          /\ callOf(i).value = <<"7011.JPX">>
          /\ avSymbol = <<"7011.JPX">>
    /\ \E i \in CallIds : callOf(i).market = "us" /\ callOf(i).pc = "returned"

TransportErrors == {networkError, httpError}

latestRow(fn, rows) ==
    IF fn = "fetchFromTwelveData" THEN rows[1] ELSE rows[Len(rows)]

\* C26: every snapshot an adapter (Alpha Vantage, Twelve Data, Stooq CSV,
\* Yahoo) produces, on a full or a partial payload, has a numeric prevHigh
\* > 0 and prevLow > 0 with prevLow <= prevHigh; a payload whose latest row
\* lacks a usable high or low makes the attempt fail.
C26_SnapshotValid ==
    (pure.fn \in Adapters /\ pure.output # Null) =>
        LET snap == pure.output[1]
            rows == pure.input
        IN  /\ snap.ok =>
                  /\ snap.prevHigh # Null /\ snap.prevLow # Null
                  /\ snap.prevHigh[1] > 0 /\ snap.prevLow[1] > 0
                  /\ snap.prevLow[1] <= snap.prevHigh[1]
            /\ (rows # <<>> /\ (latestRow(pure.fn, rows).high = Null
                                  \/ latestRow(pure.fn, rows).low = Null))
                  => ~snap.ok

\* ------------------------------------------------------------------------
\* ng < watch < ok
signalRank(signal) ==
    CASE signal = "ng"    -> 0
      [] signal = "watch" -> 1
      [] signal = "ok"    -> 2

\* C33: in the mid horizon, for focus >= 3 and every totalScore, the signal
\* of calcEntrySignalMid with earningsProx = week is never more favourable
\* (ng < watch < ok) than the signal the thresholds alone (ok at >= 5, watch
\* at >= 1, else ng) give to the same totalScore.
C33_EarningsWeekOnlyCautious ==
    (form.focus >= 3 /\ form.earningsProx = "week") =>
        /\ \A ts \in Scores :
               signalRank(calcEntrySignalMid(ts, form.focus, "week").signal)
                   <= signalRank(byThresholds(ts, 5, 1))
        /\ (Analysed /\ analysis.tab = "mid") =>
               signalRank(analysis.entrySignal.signal)
                   <= signalRank(byThresholds(analysis.totalScore, 5, 1))

\* C36: in the short horizon, for every valid input with sentiment = bad
\* (any focus, any prices) analyzeEntry never returns the entry signal 'ok'
\* and never the position size 'large' or 'medium'.
C36_BadSentimentShort ==
    (Analysed /\ analysis.tab = "short" /\ form.sentiment = "bad") =>
        /\ analysis.entrySignal.signal # "ok"
        /\ analysis.positionSize \notin {"large", "medium"}

\* the best case: full focus and a price at the support, yet only 'watch'
C36_Witness ==
    /\ Analysed /\ analysis.tab = "short"
    /\ form.sentiment = "bad" /\ form.focus = 5
    /\ analysis.totalScore = 1
    /\ analysis.entrySignal.signal = "watch"
    /\ analysis.positionSize = "small"

\* ------------------------------------------------------------------------
rising(c)  == \A i \in 1..(Len(c) - 1) : c[i] < c[i + 1]
falling(c) == \A i \in 1..(Len(c) - 1) : c[i] > c[i + 1]

\* C38: for every sequence of at least 10 strictly increasing closes
\* calcTrendAuto returns 'up', and for every sequence of at least 10
\* strictly decreasing closes it returns 'down'.
C38_MonotoneTrend ==
    (Returned("calcTrendAuto") /\ pure.input.closes # Null
        /\ Len(pure.input.closes[1]) >= 10) =>
        /\ rising(pure.input.closes[1]) => pure.output[1] = <<"up">>
        /\ falling(pure.input.closes[1]) => pure.output[1] = <<"down">>

\* 70 closes falling a unit a day, with one larger fall early on
C38_Witness ==
    /\ Returned("calcTrendAuto")
    /\ pure.input.closes # Null
    /\ Len(pure.input.closes[1]) = 70
    /\ falling(pure.input.closes[1])
    /\ pure.input.closes[1][1] - pure.input.closes[1][2] > 1
    /\ pure.output[1] = <<"down">>

\* ------------------------------------------------------------------------
hasBoth(row) == row.high # Null /\ row.low # Null

\* C34: parseYahoo selects the highest bar index at which high and low are
\* both non-null, skipping any number of trailing bars with a null high or
\* low, and returns that bar's high, low, volume (null for none) and date;
\* when no bar has both values the attempt fails, so a snapshot never
\* carries a null prevHigh or prevLow.
C34_YahooLatestFullBar ==
    Returned("parseYahoo") =>
        LET rows == pure.input
            snap == pure.output[1]
            full == {i \in 1..Len(rows) : hasBoth(rows[i])}
        IN  /\ full = {} => ~snap.ok /\ snap.msg = yahooNoValid
            /\ full # {} =>
                  /\ snap.ok
                  /\ snap.date \in full /\ \A j \in full : j <= snap.date
                  /\ snap.prevHigh = rows[snap.date].high
                  /\ snap.prevLow = rows[snap.date].low
                  /\ snap.volume = IF rows[snap.date].volume = <<0>> THEN Null
                                   ELSE rows[snap.date].volume
            /\ snap.ok => snap.prevHigh # Null /\ snap.prevLow # Null

\* two trailing bars without a low are skipped
C34_Witness ==
    /\ Returned("parseYahoo")
    /\ Len(pure.input) = 3
    /\ ~hasBoth(pure.input[2]) /\ ~hasBoth(pure.input[3])
    /\ pure.output[1].ok /\ pure.output[1].date = 1
    /\ pure.output[1].prevHigh = <<100>>

\* ------------------------------------------------------------------------
levelsOf(warnings) == [i \in 1..Len(warnings) |-> warnings[i].level]

\* C39: the two versions of the short-horizon engine agree: analyzeEntry of
\* src/app.js and analyzeEntry of src/unnamed/part_000 return the same
\* totalScore, the same marketScore, focusScore, priceScore and position,
\* the same entry-signal tag, the same stopLoss, the same position-size tag
\* and the same sequence of warning levels.
C39_VersionsAgree ==
    (Analysed /\ analysis.tab = "short") =>
        \A a \in {app_analyzeEntry(form)} :
            /\ a.totalScore = analysis.totalScore
            /\ a.scoreDetail = analysis.scoreDetail
            /\ a.entrySignal.signal = analysis.entrySignal.signal
            /\ a.stopLoss = analysis.stopLoss
            /\ a.positionSize = analysis.positionSize
            /\ levelsOf(a.warnings) = levelsOf(analysis.warnings)

\* a US analysis whose stop is rounded to the nearest cent, upwards
C39_Witness ==
    /\ Analysed /\ analysis.tab = "short"
    /\ form.market = "us"
    /\ form.currentPrice > form.prevLow
    /\ 1000 * analysis.stopLoss > 995 * form.prevLow
    /\ Len(analysis.warnings) >= 2

\* ------------------------------------------------------------------------
\* C32: phase-1 and phase-2 requests to the shared proxies are never in
\* flight at the same time: when the trend-history and index-history
\* fetches start, no proxy attempt of phase 1 is still pending.
C32_NoProxyOverlap ==
    ~(inflight \cap Proxies # {} /\ inflight \cap Phase2Attempts # {})

\* C35: when the winning snapshot carries at least 20 closes no
\* trend-history request is issued and the trend is derived from the
\* snapshot's closes; when it carries fewer (also none) the trend-history
\* race is issued and the trend is derived from its result; the
\* index-history fetch is issued in both cases.
C35_TrendSource ==
    /\ [][(call = "phase1" /\ call' = "phase2") =>
             /\ Indexes \subseteq inflight'
             /\ IF Len(stockData'[1].closes) >= 20
                THEN inflight' \cap Trends = {}
                ELSE Trends \subseteq inflight']_vars
    /\ []((stockData # Null /\ Len(stockData[1].closes) >= 20) =>
             /\ inflight \cap Trends = {}
             /\ \A t \in Trends : errs[t] = Null
             /\ call = "resolved" =>
                    outcome.trend = calcTrendAuto(<<stockData[1].closes>>, cfg.market))
    /\ []((call = "resolved" /\ Len(stockData[1].closes) < 20) =>
             outcome.trend = IF trendState.data = Null THEN Null
                             ELSE calcTrendAuto(<<trendState.data[1].closes>>,
                                                cfg.market))

\* a short snapshot whose trend came from the trend history, which fell
C35_Witness ==
    /\ call = "resolved"
    /\ Len(stockData[1].closes) < 20
    /\ trendState.data # Null /\ trendState.data[1].closes = TrendDown
    /\ outcome.trend = <<"down">>

\* ------------------------------------------------------------------------
Waiting == {i \in 1..Len(ui.fetches) : ui.fetches[i].pc = "waiting"}

\* C31: the data a completed fetch has written into the form belongs to the
\* selected market: a market switch made while a fetch is in flight cannot
\* leave the old market's prices in the cleared form.
C31_PricesOfSelectedMarket ==
    ui.prices # Null => ui.prices[1] = ui.currentMarket

\* C37: at most one fetchStockData call started from the fetch button is in
\* flight at any time: the button is disabled from the start of a fetch
\* until it settles, and enabled again after every outcome (success,
\* failure, the early return on an empty ticker).
C37_OneFetchInFlight ==
    /\ Cardinality(Waiting) <= 1
    /\ ui.disabled <=> Waiting # {}
    /\ ui.status \in {"success", "error", "error_empty"} => ~ui.disabled

\* a third fetch is in flight after one succeeded and one failed
C37_Witness ==
    /\ Len(ui.fetches) = 3
    /\ ui.fetches[1].pc = "resolved" /\ ui.fetches[2].pc = "rejected"
    /\ ui.fetches[3].pc = "waiting"
    /\ ui.disabled

=============================================================================
